---- MODULE Spec2Model ----
(***************************************************************************)
(* A model of the SM83 core of go-retroid: the CPU register file, the flat *)
(* 64KB memory, the ALU/flag helpers and the fetch/decode/execute step     *)
(* (primary table and the 0xCB extended table), with the GameBoy that     *)
(* loads a ROM and runs the CPU, and the mode clock of the PPU.            *)
(*                                                                         *)
(* The CPU is the record of its fields; every helper of the Go code is an  *)
(* operator from a CPU record to the CPU record after the call.  A helper  *)
(* that takes a *byte takes the byte value and returns the new value with  *)
(* the new F, and its caller stores the value where the pointer pointed.   *)
(***************************************************************************)
EXTENDS Integers, Sequences, FiniteSets, TLC

VARIABLES
    A, F, B, C, D, E, H, L,   \* CPU: 8-bit registers
    PC, SP,                   \* CPU: 16-bit registers
    IME,                      \* CPU: interrupt master enable
    stopped,                  \* CPU: set by STOP / HALT
    mem,                      \* mmu.Memory.data, as the map of its non-zero bytes
    fatal,                    \* "" while the process runs, else the log.Fatalf message
    ready,                    \* the driver has prepared registers and memory
    hist,                     \* the CPU records before each Step taken so far
    last,                     \* the last call of a driver other than Step, with its arguments
    run,                      \* GameBoy.Run: where it is and its loop index i
    ppu                       \* the PPU record

vars == <<A, F, B, C, D, E, H, L, PC, SP, IME, stopped, mem, fatal, ready, hist,
          last, run, ppu>>

----------------------------------------------------------------------------
(* Bounds of the model *)

\* the number of Step calls of one session
MaxSteps == 2

\* the highest value the clock of the PPU is driven to
MaxClock == 460

----------------------------------------------------------------------------
(* Flag bits *)

FLAG_ZERO == 128
FLAG_SUBTRACT == 64
FLAG_HALFCARRY == 32
FLAG_CARRY == 16

----------------------------------------------------------------------------
(* Byte and word arithmetic of Go's byte / uint16 *)

Byte(x) == x % 256
Word(x) == x % 65536

Bit(x, n) == (x \div (2 ^ n)) % 2

RECURSIVE AndBits(_, _, _)
AndBits(x, y, n) ==
    IF n = 0 THEN 0
    ELSE ((x % 2) * (y % 2)) + 2 * AndBits(x \div 2, y \div 2, n - 1)

RECURSIVE OrBits(_, _, _)
OrBits(x, y, n) ==
    IF n = 0 THEN 0
    ELSE (IF (x % 2) + (y % 2) > 0 THEN 1 ELSE 0) + 2 * OrBits(x \div 2, y \div 2, n - 1)

RECURSIVE XorBits(_, _, _)
XorBits(x, y, n) ==
    IF n = 0 THEN 0
    ELSE (((x % 2) + (y % 2)) % 2) + 2 * XorBits(x \div 2, y \div 2, n - 1)

\* x & y, x | y, x ^ y and ^x on bytes
And8(x, y) == AndBits(x, y, 8)
Or8(x, y) == OrBits(x, y, 8)
Xor8(x, y) == XorBits(x, y, 8)
Not8(x) == 255 - x

\* int8(x): the byte as a two's-complement value
Int8(x) == IF x >= 128 THEN x - 256 ELSE x

\* f & FLAG != 0
Has(f, flag) == And8(f, flag) # 0

----------------------------------------------------------------------------
(* mmu.Memory: 64KB, zero after New.  The map holds the non-zero bytes     *)
(* only, so that equal memories are equal maps.                            *)

Read(m, address) == IF address \in DOMAIN m THEN m[address] ELSE 0

Write(m, address, payload) ==
    IF payload = 0
    THEN [x \in (DOMAIN m) \ {address} |-> m[x]]
    ELSE [x \in (DOMAIN m) \cup {address} |-> IF x = address THEN payload ELSE m[x]]

----------------------------------------------------------------------------
(* Register pairs *)

BC(s) == (s.B * 256) + s.C
DE(s) == (s.D * 256) + s.E
HL(s) == (s.H * 256) + s.L

WriteBC(s, data) == [s EXCEPT !.B = data \div 256, !.C = data % 256]
WriteDE(s, data) == [s EXCEPT !.D = data \div 256, !.E = data % 256]
\* WriteHL that puts the low byte in H
WriteHL_swapped(s, data) == [s EXCEPT !.H = data % 256, !.L = data \div 256]

WriteHL(s, data) == [s EXCEPT !.H = data \div 256, !.L = data % 256]

----------------------------------------------------------------------------
(* The helpers of opcode.go.  A helper with a *byte parameter is given F   *)
(* and the byte, and yields [reg |-> the byte afterwards, F |-> F          *)
(* afterwards]; Store puts such a result into a register of the CPU.       *)

\* the F built by "c.F = base; if z {c.F |= FLAG_ZERO}; ..." from flags not set in base
Flags(base, z, h, c) ==
    base + (IF z THEN FLAG_ZERO ELSE 0) + (IF h THEN FLAG_HALFCARRY ELSE 0)
         + (IF c THEN FLAG_CARRY ELSE 0)

Store(s, r, res) == [s EXCEPT ![r] = res.reg, !.F = res.F]

\* log.Fatalf: the message is logged and the process exits
Fatalf(s, msg) == [s EXCEPT !.fatal = msg]

\* ldXNN that leaves PC on its operand
ldXNN_keepsPC(s, r) == [s EXCEPT ![r] = Read(s.mem, s.PC)]

ldXNN(s, r) == [s EXCEPT ![r] = Read(s.mem, s.PC), !.PC = Word(s.PC + 1)]

\* addCarry that adds no carry
addCarry_noCarryIn(f, reg, term) ==
    LET sum == reg + term
    IN [reg |-> sum % 256,
        F |-> Flags(0, sum % 256 = 0, (reg % 16) + (term % 16) > 15, sum > 255)]

addCarry(f, reg, term) ==
    LET carry == And8(f, FLAG_CARRY) \div 16
        sum == reg + term + carry
        new == sum % 256
    IN [reg |-> new,
        F |-> Flags(0, new = 0, (reg % 16) + (term % 16) + carry > 15, sum > 255)]

add(f, reg, term) ==
    LET sum == reg + term
        new == sum % 256
    IN [reg |-> new,
        F |-> Flags(0, new = 0, (reg % 16) + (term % 16) > 15, sum > 255)]

sub(f, reg, term) ==
    LET res == reg - term
        new == (res + 256) % 256
    IN [reg |-> new,
        F |-> Flags(FLAG_SUBTRACT, new = 0, (reg % 16) < (term % 16), res < 0)]

\* subCarry whose half-carry test leaves the carry out
subCarry_halfOfSub(f, reg, term) ==
    LET carry == And8(f, FLAG_CARRY) \div 16
        res == reg - term - carry
    IN [reg |-> res % 256,
        F |-> Flags(FLAG_SUBTRACT, res % 256 = 0, (reg % 16) < (term % 16), res < 0)]

subCarry(f, reg, term) ==
    LET carry == And8(f, FLAG_CARRY) \div 16
        res == reg - term - carry
        new == (res + 512) % 256
    IN [reg |-> new,
        F |-> Flags(FLAG_SUBTRACT, new = 0, (reg % 16) < (term % 16) + carry, res < 0)]

and(f, reg, value) ==
    LET new == And8(reg, value)
    IN [reg |-> new, F |-> Flags(FLAG_HALFCARRY, new = 0, FALSE, FALSE)]

xor(f, reg, value) ==
    LET new == Xor8(reg, value)
    IN [reg |-> new, F |-> Flags(0, new = 0, FALSE, FALSE)]

or(f, reg, value) ==
    LET new == Or8(reg, value)
    IN [reg |-> new, F |-> Flags(0, new = 0, FALSE, FALSE)]

\* cp takes the byte by value: only F changes
\* cp that stores the difference
cp_storesResult(f, reg, value) ==
    [reg |-> (reg - value) % 256,
     F |-> Flags(FLAG_SUBTRACT, reg = value, (reg % 16) < (value % 16), reg < value)]

cp(f, reg, value) ==
    [reg |-> reg,
     F |-> Flags(FLAG_SUBTRACT, reg = value, (reg % 16) < (value % 16), reg < value)]

\* jr that reads its operand as an unsigned byte
jr_unsignedOffset(s) ==
    LET offset == Read(s.mem, s.PC)
        pc1 == Word(s.PC + 1)
    IN [s EXCEPT !.PC = Word(pc1 + offset)]

jr(s) ==
    LET offset == Int8(Read(s.mem, s.PC))
        pc1 == Word(s.PC + 1)
    IN [s EXCEPT !.PC = Word(pc1 + offset + 65536)]

\* inc that forgets the prior carry
inc_dropsCarry(f, reg) ==
    LET new == (reg + 1) % 256
    IN [reg |-> new, F |-> Flags(0, new = 0, reg % 16 = 15, FALSE)]

inc(f, reg) ==
    LET new == (reg + 1) % 256
    IN [reg |-> new,
        F |-> Flags(And8(f, FLAG_CARRY), new = 0, reg % 16 = 15, FALSE)]

dec(f, reg) ==
    LET new == (reg + 255) % 256
    IN [reg |-> new,
        F |-> Flags(Or8(And8(f, FLAG_CARRY), FLAG_SUBTRACT), new = 0, reg % 16 = 0, FALSE)]

\* jp that takes the first operand byte as the high half
jp_bigEndian(s) ==
    LET low == Read(s.mem, s.PC)
        high == Read(s.mem, Word(s.PC + 1))
    IN [s EXCEPT !.PC = (low * 256) + high]

jp(s) ==
    LET low == Read(s.mem, s.PC)
        high == Read(s.mem, Word(s.PC + 1))
    IN [s EXCEPT !.PC = (high * 256) + low]

ret(s) ==
    LET low == Read(s.mem, s.SP)
        high == Read(s.mem, Word(s.SP + 1))
    IN [s EXCEPT !.PC = (high * 256) + low, !.SP = Word(s.SP + 2)]

call(s) ==
    LET sp == Word(s.SP + 65534)
        m1 == Write(s.mem, sp, s.PC % 256)
        m2 == Write(m1, Word(sp + 1), s.PC \div 256)
        low == Read(m2, s.PC)
        high == Read(m2, Word(s.PC + 1))
    IN [s EXCEPT !.SP = sp, !.mem = m2, !.PC = (high * 256) + low]

\* rst that pushes the address of the RST itself
rst_pushesOwnAddress(s) ==
    LET sp == Word(s.SP + 65534)
        own == Word(s.PC + 65535)
        m1 == Write(s.mem, sp, own % 256)
        m2 == Write(m1, Word(sp + 1), own \div 256)
    IN [s EXCEPT !.SP = sp, !.mem = m2]

rst(s) ==
    LET sp == Word(s.SP + 65534)
        m1 == Write(s.mem, sp, s.PC % 256)
        m2 == Write(m1, Word(sp + 1), s.PC \div 256)
    IN [s EXCEPT !.SP = sp, !.mem = m2]

rlc(f, reg) ==
    LET msb == And8(reg, 128)
        new == Or8((reg * 2) % 256, msb \div 128)
    IN [reg |-> new, F |-> Flags(0, new = 0, FALSE, msb # 0)]

rrc(f, reg) ==
    LET lsb == And8(reg, 1)
        new == Or8(reg \div 2, (lsb * 128) % 256)
    IN [reg |-> new, F |-> Flags(0, new = 0, FALSE, lsb # 0)]

swap(f, reg) ==
    LET new == Or8(reg \div 16, (reg * 16) % 256)
    IN [reg |-> new, F |-> Flags(0, new = 0, FALSE, FALSE)]

srl(f, reg) ==
    LET lsb == And8(reg, 1)
        new == reg \div 2
    IN [reg |-> new, F |-> Flags(0, new = 0, FALSE, lsb # 0)]

rl(f, reg) ==
    LET msb == And8(reg, 128)
        new == Or8((reg * 2) % 256, And8(f, FLAG_CARRY) \div 16)
    IN [reg |-> new, F |-> Flags(0, new = 0, FALSE, msb # 0)]

rr(f, reg) ==
    LET lsb == And8(reg, 1)
        new == Or8(reg \div 2, (And8(f, FLAG_CARRY) * 8) % 256)
    IN [reg |-> new, F |-> Flags(0, new = 0, FALSE, lsb # 0)]

sla(f, reg) ==
    LET msb == And8(reg, 128)
        new == (reg * 2) % 256
    IN [reg |-> new, F |-> Flags(0, new = 0, FALSE, msb # 0)]

\* sra that shifts a zero into bit 7
sra_dropsSign(f, reg) ==
    [reg |-> reg \div 2, F |-> Flags(0, reg \div 2 = 0, FALSE, reg % 2 # 0)]

sra(f, reg) ==
    LET lsb == And8(reg, 1)
        msb == And8(reg, 128)
        new == Or8(reg \div 2, msb)
    IN [reg |-> new, F |-> Flags(0, new = 0, FALSE, lsb # 0)]

\* bit that sets Zero when the tested bit is 1
bit_invertedZero(f, n, reg) ==
    [reg |-> reg,
     F |-> Flags(Or8(And8(f, FLAG_CARRY), FLAG_HALFCARRY),
                 And8(reg, (2 ^ n) % 256) # 0, FALSE, FALSE)]

\* bit takes the byte by value: only F changes
bit(f, n, reg) ==
    [reg |-> reg,
     F |-> Flags(Or8(And8(f, FLAG_CARRY), FLAG_HALFCARRY),
                 And8(reg, (2 ^ n) % 256) = 0, FALSE, FALSE)]

\* res that takes the bit number itself as the mask
res_numberAsMask(f, n, reg) == [reg |-> And8(reg, Not8(n)), F |-> f]

res(f, n, reg) == [reg |-> And8(reg, Not8((2 ^ n) % 256)), F |-> f]

set(f, n, reg) == [reg |-> Or8(reg, (2 ^ n) % 256), F |-> f]

----------------------------------------------------------------------------
(* Execute: the primary opcode table.  The regular blocks of the switch    *)
(* (one case per register) are decoded from the opcode's register fields:  *)
(* bits 0-2 and bits 3-5 select among B, C, D, E, H, L, (HL), A.           *)

Reg8(i) == <<"B", "C", "D", "E", "H", "L", "(HL)", "A">>[i + 1]

\* the operand c.B .. c.A, or c.mem.Read(c.HL())
Operand(s, i) == IF i = 6 THEN Read(s.mem, HL(s)) ELSE s[Reg8(i)]

\* the eight ALU helpers in the order of the rows 0x80 .. 0xB8
Alu(k, f, reg, term) ==
    CASE k = 0 -> add(f, reg, term)
      [] k = 1 -> addCarry(f, reg, term)
      [] k = 2 -> sub(f, reg, term)
      [] k = 3 -> subCarry(f, reg, term)
      [] k = 4 -> and(f, reg, term)
      [] k = 5 -> xor(f, reg, term)
      [] k = 6 -> or(f, reg, term)
      [] k = 7 -> cp(f, reg, term)

\* LD rr, d16 for BC, DE, HL: high byte from PC+1, low byte from PC
LoadPair16(s, hi, lo) ==
    [s EXCEPT ![hi] = Read(s.mem, Word(s.PC + 1)),
              ![lo] = Read(s.mem, s.PC),
              !.PC = Word(s.PC + 2)]

\* ADD HL, rr (0x09, 0x19, 0x29, 0x39)
\* ADD HL,rr that starts from a clear F
AddHL_clearsZero(s, term) ==
    LET old == HL(s)
        sum == old + term
        s1 == WriteHL(s, sum % 65536)
    IN [s1 EXCEPT !.F = Flags(0, FALSE, (old % 256) + (term % 256) > 255, sum > 65535)]

AddHL(s, term) ==
    LET old == HL(s)
        sum == old + term
        s1 == WriteHL(s, sum % 65536)
    IN [s1 EXCEPT !.F = Flags(And8(s.F, 128), FALSE,
                              (old % 256) + (term % 256) > 255, sum > 65535)]

\* Push with the two bytes exchanged on the stack
Push_swapped(s, high, low) ==
    LET sp == Word(s.SP + 65534)
        m1 == Write(s.mem, sp, high)
    IN [s EXCEPT !.SP = sp, !.mem = Write(m1, Word(sp + 1), low)]

\* PUSH rr: SP -= 2, low byte at SP, high byte at SP+1
Push(s, high, low) ==
    LET sp == Word(s.SP + 65534)
        m1 == Write(s.mem, sp, low)
    IN [s EXCEPT !.SP = sp, !.mem = Write(m1, Word(sp + 1), high)]

\* Pop that leaves SP where it was
Pop_keepsSP(s, hi, lo) ==
    [s EXCEPT ![hi] = Read(s.mem, Word(s.SP + 1)),
              ![lo] = Read(s.mem, s.SP)]

\* POP BC / DE / HL: low byte from SP, high byte from SP+1, SP += 2
Pop(s, hi, lo) ==
    [s EXCEPT ![hi] = Read(s.mem, Word(s.SP + 1)),
              ![lo] = Read(s.mem, s.SP),
              !.SP = Word(s.SP + 2)]

\* PopAF without the mask on F
PopAF_unmasked(s) ==
    LET low == Read(s.mem, s.SP)
        high == Read(s.mem, Word(s.SP + 1))
    IN [s EXCEPT !.A = high, !.F = low, !.SP = Word(s.SP + 2)]

\* POP AF (0xF1)
PopAF(s) ==
    LET low == Read(s.mem, s.SP)
        high == Read(s.mem, Word(s.SP + 1))
    IN [s EXCEPT !.A = high, !.F = And8(low, 240), !.SP = Word(s.SP + 2)]

\* RLCA that tests the high nibble for 0x10 instead of bit 7
RLCA_nibbleTest(s) ==
    LET msb == And8(s.A, 240)
        a == (s.A * 2) % 256
    IN IF msb = 16 THEN [s EXCEPT !.A = Or8(a, 1), !.F = FLAG_CARRY]
       ELSE [s EXCEPT !.A = a, !.F = 0]

RLCA(s) ==
    LET msb == And8(s.A, 128)
        a == (s.A * 2) % 256
    IN IF msb # 0 THEN [s EXCEPT !.A = Or8(a, 1), !.F = FLAG_CARRY]
       ELSE [s EXCEPT !.A = a, !.F = 0]

RRCA(s) ==
    LET lsb == And8(s.A, 1)
        a == s.A \div 2
    IN IF lsb = 1 THEN [s EXCEPT !.A = Or8(a, 128), !.F = FLAG_CARRY]
       ELSE [s EXCEPT !.A = a, !.F = 0]

RLA(s) ==
    LET oldA == s.A
        a == (s.A * 2) % 256
    IN [s EXCEPT !.A = IF And8(s.F, FLAG_CARRY) > 0 THEN Or8(a, 1) ELSE a,
                 !.F = IF And8(oldA, 128) > 0 THEN FLAG_CARRY ELSE 0]

RRA(s) ==
    LET oldA == s.A
        a == s.A \div 2
    IN [s EXCEPT !.A = IF And8(s.F, FLAG_CARRY) > 0 THEN Or8(a, 128) ELSE a,
                 !.F = IF And8(oldA, 1) > 0 THEN FLAG_CARRY ELSE 0]

DAA(s) ==
    LET add1 == IF (s.A % 16) > 9 \/ Has(s.F, FLAG_HALFCARRY)
                THEN (s.A + 6) % 256 ELSE s.A
        addC == add1 > 153 \/ Has(s.F, FLAG_CARRY)
        add2 == IF addC THEN (add1 + 96) % 256 ELSE add1
        sub1 == IF Has(s.F, FLAG_HALFCARRY) THEN (s.A + 250) % 256 ELSE s.A
        sub2 == IF Has(s.F, FLAG_CARRY) THEN (sub1 + 160) % 256 ELSE sub1
        isAdd == ~Has(s.F, FLAG_SUBTRACT)
        a == IF isAdd THEN add2 ELSE sub2
        f1 == IF isAdd /\ addC THEN Or8(s.F, FLAG_CARRY) ELSE s.F
        f2 == And8(f1, Not8(FLAG_HALFCARRY))
    IN [s EXCEPT !.A = a,
                 !.F = IF a = 0 THEN Or8(f2, FLAG_ZERO) ELSE And8(f2, Not8(FLAG_ZERO))]

\* INC (HL) (0x34)
IncHL(s) ==
    LET old == Read(s.mem, HL(s))
        val == (old + 1) % 256
        f1 == And8(s.F, 31)
        f2 == IF val = 0 THEN Or8(f1, FLAG_ZERO) ELSE f1
    IN [s EXCEPT !.mem = Write(s.mem, HL(s), val),
                 !.F = IF old % 16 = 15 THEN Or8(f2, FLAG_HALFCARRY) ELSE f2]

\* DEC (HL) (0x35)
DecHL(s) ==
    LET old == Read(s.mem, HL(s))
        val == (old + 255) % 256
        f1 == IF val = 0 THEN Or8(s.F, FLAG_ZERO) ELSE s.F
        f2 == Or8(f1, FLAG_SUBTRACT)
    IN [s EXCEPT !.mem = Write(s.mem, HL(s), val),
                 !.F = IF old % 16 = 0 THEN Or8(f2, FLAG_HALFCARRY) ELSE f2]

\* ADD SP, r8 (0xE8)
\* ADD SP, r8 that keeps Zero as ADD HL does
AddSP_keepsZero(s) ==
    LET raw == Read(s.mem, s.PC)
        offset == Int8(raw)
        oldSP == s.SP
    IN [s EXCEPT !.PC = Word(s.PC + 1),
                 !.SP = Word(oldSP + offset + 65536),
                 !.F = Flags(And8(s.F, FLAG_ZERO), FALSE, (oldSP % 16) + (raw % 16) > 15,
                             (oldSP % 256) + raw > 255)]

AddSP(s) ==
    LET raw == Read(s.mem, s.PC)
        offset == Int8(raw)
        oldSP == s.SP
    IN [s EXCEPT !.PC = Word(s.PC + 1),
                 !.SP = Word(oldSP + offset + 65536),
                 !.F = Flags(0, FALSE, (oldSP % 16) + (raw % 16) > 15,
                             (oldSP % 256) + raw > 255)]

\* LD HL, SP+s8 (0xF8)
LdHLSP(s) ==
    LET raw == Read(s.mem, s.PC)
        offset == Int8(raw)
        s1 == WriteHL([s EXCEPT !.PC = Word(s.PC + 1)], Word(s.SP + offset + 65536))
    IN [s1 EXCEPT !.F = Flags(0, FALSE, (s.SP % 16) + (raw % 16) > 15,
                              (s.SP % 256) + raw > 255)]

----------------------------------------------------------------------------
(* handleCBx: the extended table.  Rows 0x00-0x3F are the eight rotate and  *)
(* shift helpers, 0x40-0x7F bit, 0x80-0xBF res, 0xC0-0xFF set; the (HL)     *)
(* column reads the byte, calls the helper and writes the byte back, bit    *)
(* excepted, which only reads.                                              *)

CBHelper(f, opcode, reg) ==
    LET g == opcode \div 8
        n == g % 8
    IN CASE g = 0 -> rlc(f, reg)
         [] g = 1 -> rrc(f, reg)
         [] g = 2 -> rl(f, reg)
         [] g = 3 -> rr(f, reg)
         [] g = 4 -> sla(f, reg)
         [] g = 5 -> sra(f, reg)
         [] g = 6 -> swap(f, reg)
         [] g = 7 -> srl(f, reg)
         [] g \in 8..15 -> bit(f, n, reg)
         [] g \in 16..23 -> res(f, n, reg)
         [] g \in 24..31 -> set(f, n, reg)

\* handleCBx whose switch ends before the SET rows
handleCBx_noSet(s) ==
    LET opcode == Read(s.mem, s.PC)
        s1 == [s EXCEPT !.PC = Word(s.PC + 1)]
        i == opcode % 8
        r == CBHelper(s1.F, opcode, Operand(s1, i))
    IN IF opcode \notin 0..191 THEN Fatalf(s1, "Unhandled CB opcode")
       ELSE IF i # 6 THEN Store(s1, Reg8(i), r)
       ELSE IF opcode \in 64..127 THEN [s1 EXCEPT !.F = r.F]
       ELSE [s1 EXCEPT !.mem = Write(s1.mem, HL(s1), r.reg), !.F = r.F]

\* handleCBx whose (HL) column never writes the byte back
handleCBx_hlNotStored(s) ==
    LET opcode == Read(s.mem, s.PC)
        s1 == [s EXCEPT !.PC = Word(s.PC + 1)]
        i == opcode % 8
        r == CBHelper(s1.F, opcode, Operand(s1, i))
    IN IF opcode \notin 0..255 THEN Fatalf(s1, "Unhandled CB opcode")
       ELSE IF i # 6 THEN Store(s1, Reg8(i), r)
       ELSE [s1 EXCEPT !.F = r.F]

handleCBx(s) ==
    LET opcode == Read(s.mem, s.PC)
        s1 == [s EXCEPT !.PC = Word(s.PC + 1)]
        i == opcode % 8
        r == CBHelper(s1.F, opcode, Operand(s1, i))
    IN IF opcode \notin 0..255 THEN Fatalf(s1, "Unhandled CB opcode")
       ELSE IF i # 6 THEN Store(s1, Reg8(i), r)
       ELSE IF opcode \in 64..127 THEN [s1 EXCEPT !.F = r.F]
       ELSE [s1 EXCEPT !.mem = Write(s1.mem, HL(s1), r.reg), !.F = r.F]

----------------------------------------------------------------------------
(* Execute *)

\* the cases that call log.Fatalf("Illegal opcode: ...")
IllegalOpcodes == {211, 219, 221, 227, 228, 235, 236, 237, 244, 252, 253}

\* 0x40 .. 0x7F without HALT: LD r, r' / LD r, (HL) / LD (HL), r
ExecuteLD(s, opcode) ==
    LET d == (opcode \div 8) % 8
        r == opcode % 8
    IN IF d = 6 THEN [s EXCEPT !.mem = Write(s.mem, HL(s), s[Reg8(r)])]
       ELSE [s EXCEPT ![Reg8(d)] = Operand(s, r)]

\* 0x80 .. 0xBF: the ALU helper of the row on A and the operand of the column
ExecuteALU(s, opcode) ==
    Store(s, "A", Alu((opcode \div 8) % 8, s.F, s.A, Operand(s, opcode % 8)))

\* 0xC6, 0xCE, .. 0xFE: the ALU helper on A and the byte at PC
ExecuteALUd8(s, opcode) ==
    LET s1 == Store(s, "A", Alu((opcode \div 8) % 8, s.F, s.A, Read(s.mem, s.PC)))
    IN [s1 EXCEPT !.PC = Word(s.PC + 1)]

\* the conditional jumps, calls and returns, each with the test its case makes
ExecuteCond(s, opcode) ==
    LET z == And8(s.F, FLAG_ZERO)
        c == And8(s.F, FLAG_CARRY)
    IN CASE opcode = 32 -> IF z = 0 THEN jr(s) ELSE s
         [] opcode = 40 -> IF z # 0 THEN jr(s) ELSE s
         [] opcode = 48 -> IF c # 0 THEN jr(s) ELSE s
         [] opcode = 56 -> IF c # 0 THEN jr(s) ELSE s
         [] opcode = 192 -> IF z = 0 THEN ret(s) ELSE s
         [] opcode = 194 -> IF z = 0 THEN jp(s) ELSE [s EXCEPT !.PC = Word(s.PC + 1)]
         [] opcode = 196 -> IF z = 0 THEN call(s) ELSE [s EXCEPT !.PC = Word(s.PC + 2)]
         [] opcode = 200 -> IF z # 0 THEN ret(s) ELSE s
         [] opcode = 202 -> IF z # 0 THEN jp(s) ELSE [s EXCEPT !.PC = Word(s.PC + 2)]
         [] opcode = 204 -> IF z # 0 THEN call(s) ELSE [s EXCEPT !.PC = Word(s.PC + 2)]
         [] opcode = 208 -> IF c = 0 THEN ret(s) ELSE s
         [] opcode = 210 -> IF c = 0 THEN jp(s) ELSE [s EXCEPT !.PC = Word(s.PC + 2)]
         [] opcode = 212 -> IF c = 0 THEN call(s) ELSE [s EXCEPT !.PC = Word(s.PC + 2)]
         [] opcode = 216 -> IF c # 0 THEN ret(s) ELSE s
         [] opcode = 218 -> IF c # 0 THEN jp(s) ELSE [s EXCEPT !.PC = Word(s.PC + 2)]
         [] opcode = 220 -> IF c # 0 THEN call(s) ELSE [s EXCEPT !.PC = Word(s.PC + 2)]

CondOpcodes == {32, 40, 48, 56, 192, 194, 196, 200, 202, 204, 208, 210, 212, 216, 218, 220}

\* rows 0x00 .. 0x3F
ExecuteLow(s, opcode) ==
    CASE opcode = 0 -> s
      [] opcode = 1 -> LoadPair16(s, "B", "C")
      [] opcode = 2 -> [s EXCEPT !.mem = Write(s.mem, BC(s), s.A)]
      [] opcode = 3 -> WriteBC(s, Word(BC(s) + 1))
      [] opcode \in {4, 12, 20, 28, 36, 44, 60} ->
            Store(s, Reg8(opcode \div 8), inc(s.F, s[Reg8(opcode \div 8)]))
      [] opcode \in {5, 13, 21, 29, 37, 45, 61} ->
            Store(s, Reg8(opcode \div 8), dec(s.F, s[Reg8(opcode \div 8)]))
      [] opcode \in {6, 14, 22, 30, 38, 46, 62} -> ldXNN(s, Reg8(opcode \div 8))
      [] opcode = 7 -> RLCA(s)
      [] opcode = 8 ->
            LET m1 == Write(s.mem, s.PC, s.SP % 256)
            IN [s EXCEPT !.mem = Write(m1, Word(s.PC + 1), s.SP \div 256),
                         !.PC = Word(s.PC + 2)]
      [] opcode = 9 -> AddHL(s, BC(s))
      [] opcode = 10 -> [s EXCEPT !.A = Read(s.mem, BC(s))]
      [] opcode = 11 -> WriteBC(s, Word(BC(s) + 65535))
      [] opcode = 15 -> RRCA(s)
      [] opcode = 16 -> [s EXCEPT !.stopped = TRUE, !.PC = Word(s.PC + 1)]
      [] opcode = 17 -> LoadPair16(s, "D", "E")
      [] opcode = 18 -> [s EXCEPT !.mem = Write(s.mem, DE(s), s.A)]
      [] opcode = 19 -> WriteDE(s, Word(DE(s) + 1))
      [] opcode = 23 -> RLA(s)
      [] opcode = 24 -> jr(s)
      [] opcode = 25 -> AddHL(s, DE(s))
      [] opcode = 26 -> [s EXCEPT !.A = Read(s.mem, DE(s))]
      [] opcode = 27 -> WriteBC(s, Word(DE(s) + 65535))
      [] opcode = 31 -> RRA(s)
      [] opcode \in {32, 40, 48, 56} -> ExecuteCond(s, opcode)
      [] opcode = 33 -> LoadPair16(s, "H", "L")
      [] opcode = 34 -> WriteHL([s EXCEPT !.mem = Write(s.mem, HL(s), s.A)], Word(HL(s) + 1))
      [] opcode = 35 -> WriteHL(s, Word(HL(s) + 1))
      [] opcode = 39 -> DAA(s)
      [] opcode = 41 -> AddHL(s, HL(s))
      [] opcode = 42 -> WriteHL([s EXCEPT !.A = Read(s.mem, HL(s))], Word(HL(s) + 1))
      [] opcode = 43 -> WriteHL(s, Word(HL(s) + 65535))
      [] opcode = 47 -> [s EXCEPT !.A = Not8(s.A),
                                  !.F = Or8(s.F, FLAG_HALFCARRY + FLAG_SUBTRACT)]
      [] opcode = 49 ->
            [s EXCEPT !.SP = (Read(s.mem, Word(s.PC + 1)) * 256) + Read(s.mem, s.PC),
                      !.PC = Word(s.PC + 2)]
      [] opcode = 50 -> WriteHL([s EXCEPT !.mem = Write(s.mem, HL(s), s.A)], Word(HL(s) + 65535))
      [] opcode = 51 -> [s EXCEPT !.SP = Word(s.SP + 1)]
      [] opcode = 52 -> IncHL(s)
      [] opcode = 53 -> DecHL(s)
      [] opcode = 54 -> [s EXCEPT !.mem = Write(s.mem, HL(s), Read(s.mem, s.PC)),
                                  !.PC = Word(s.PC + 1)]
      [] opcode = 55 -> [s EXCEPT !.F = Or8(And8(s.F, FLAG_ZERO), FLAG_CARRY)]
      [] opcode = 57 -> AddHL(s, s.SP)
      [] opcode = 58 -> WriteHL([s EXCEPT !.A = Read(s.mem, HL(s))], Word(HL(s) + 65535))
      [] opcode = 59 -> [s EXCEPT !.SP = Word(s.SP + 65535)]
      [] opcode = 63 -> [s EXCEPT !.F = And8(Xor8(s.F, FLAG_CARRY), FLAG_ZERO + FLAG_CARRY)]
      [] OTHER -> Fatalf(s, "opcode unhandled")

\* rows 0xC0 .. 0xFF
ExecuteHigh(s, opcode) ==
    CASE opcode \in CondOpcodes -> ExecuteCond(s, opcode)
      [] opcode \in IllegalOpcodes -> Fatalf(s, "Illegal opcode")
      [] opcode \in {198, 206, 214, 222, 230, 238, 246, 254} -> ExecuteALUd8(s, opcode)
      [] opcode \in {199, 207, 215, 223, 231, 239, 247, 255} ->
            [rst(s) EXCEPT !.PC = opcode - 199]
      [] opcode = 193 -> Pop(s, "B", "C")
      [] opcode = 195 -> jp(s)
      [] opcode = 197 -> Push(s, s.B, s.C)
      [] opcode = 201 -> ret(s)
      [] opcode = 203 -> handleCBx(s)
      [] opcode = 205 -> call(s)
      [] opcode = 209 -> Pop(s, "D", "E")
      [] opcode = 213 -> Push(s, s.D, s.E)
      [] opcode = 217 -> [ret(s) EXCEPT !.IME = TRUE]
      [] opcode = 224 -> [s EXCEPT !.mem = Write(s.mem, 65280 + Read(s.mem, s.PC), s.A),
                                   !.PC = Word(s.PC + 1)]
      [] opcode = 225 -> Pop(s, "H", "L")
      [] opcode = 226 -> [s EXCEPT !.mem = Write(s.mem, 65280 + s.C, s.A)]
      [] opcode = 229 -> Push(s, s.H, s.L)
      [] opcode = 232 -> AddSP(s)
      [] opcode = 233 -> [s EXCEPT !.PC = HL(s)]
      [] opcode = 234 ->
            LET addr == Read(s.mem, s.PC) + (Read(s.mem, Word(s.PC + 1)) * 256)
            IN [s EXCEPT !.mem = Write(s.mem, addr, s.A), !.PC = Word(s.PC + 2)]
      [] opcode = 240 -> [s EXCEPT !.A = Read(s.mem, 65280 + Read(s.mem, s.PC)),
                                   !.PC = Word(s.PC + 1)]
      [] opcode = 241 -> PopAF(s)
      [] opcode = 242 -> [s EXCEPT !.A = Read(s.mem, 65280 + s.C)]
      [] opcode = 243 -> [s EXCEPT !.IME = FALSE]
      [] opcode = 245 -> Push(s, s.A, s.F)
      [] opcode = 248 -> LdHLSP(s)
      [] opcode = 249 -> [s EXCEPT !.SP = HL(s)]
      [] opcode = 250 ->
            LET addr == Read(s.mem, s.PC) + (Read(s.mem, Word(s.PC + 1)) * 256)
            IN [s EXCEPT !.A = Read(s.mem, addr), !.PC = Word(s.PC + 2)]
      [] opcode = 251 -> [s EXCEPT !.IME = TRUE]
      [] OTHER -> Fatalf(s, "opcode unhandled")

\* Execute whose CCF sets Carry as SCF does
Execute_ccfAsScf(s, opcode) ==
    IF opcode = 63 THEN ExecuteLow(s, 55)
    ELSE IF opcode < 64 THEN ExecuteLow(s, opcode)
    ELSE IF opcode = 118 THEN [s EXCEPT !.stopped = TRUE]
    ELSE IF opcode < 128 THEN ExecuteLD(s, opcode)
    ELSE IF opcode < 192 THEN ExecuteALU(s, opcode)
    ELSE ExecuteHigh(s, opcode)

\* Execute whose EI takes effect only after the next instruction
Execute_eiDeferred(s, opcode) ==
    IF opcode = 251 THEN s
    ELSE IF opcode < 64 THEN ExecuteLow(s, opcode)
    ELSE IF opcode = 118 THEN [s EXCEPT !.stopped = TRUE]
    ELSE IF opcode < 128 THEN ExecuteLD(s, opcode)
    ELSE IF opcode < 192 THEN ExecuteALU(s, opcode)
    ELSE ExecuteHigh(s, opcode)

Execute(s, opcode) ==
    IF opcode < 64 THEN ExecuteLow(s, opcode)
    ELSE IF opcode = 118 THEN [s EXCEPT !.stopped = TRUE]
    ELSE IF opcode < 128 THEN ExecuteLD(s, opcode)
    ELSE IF opcode < 192 THEN ExecuteALU(s, opcode)
    ELSE ExecuteHigh(s, opcode)

\* the values an Execute call returns to its caller: the function has no
\* result list, and the CPU has no field that counts cycles
ExecuteResults(s, opcode) == <<>>

----------------------------------------------------------------------------
(* mmu.Memory.WriteBytes.  The destination is the slice                    *)
(* m.data[address : address + uint16(len(payload))], whose upper bound is  *)
(* computed in 16 bits; a slice expression with low > high panics, and     *)
(* copy moves as many bytes as the shorter of the two slices holds.        *)

\* the upper bound of the destination slice
SliceHigh(address, payload) == (address + (Len(payload) % 65536)) % 65536

\* the run-time panic of the slice expression
SlicePanics(address, payload) == address > SliceHigh(address, payload)

\* the number of bytes copy moves
Copied(address, payload) ==
    IF SliceHigh(address, payload) - address < Len(payload)
    THEN SliceHigh(address, payload) - address
    ELSE Len(payload)

\* the data after WriteBytes returned
WriteBytes(m, address, payload) ==
    LET n == Copied(address, payload)
        written == address..(address + n - 1)
        nonzero == {x \in written : payload[x - address + 1] # 0}
    IN [x \in ((DOMAIN m) \ written) \cup nonzero |->
            IF x \in written THEN payload[x - address + 1] ELSE m[x]]

----------------------------------------------------------------------------
(* The PPU: its registers, clock and mode.  The frame buffer is kept as    *)
(* the scanline that renderScanline last drew.                             *)

LCDC_BG_ENABLE == 1
LCDC_OBJ_ENABLE == 2
LCDC_LCD_ENABLE == 128

MODE_HBLANK == 0
MODE_VBLANK == 1
MODE_OAM == 2
MODE_VRAM == 3

NewPPU ==
    [lcdControl |-> 145, lcdStatus |-> 0, scrollY |-> 0, scrollX |-> 0,
     lyCounter |-> 0, clock |-> 0, mode |-> MODE_OAM, drawn |-> -1]

\* renderScanline: the background and the sprites of the current line, each
\* when its bit of lcdControl enables it
renderScanline(p) ==
    IF And8(p.lcdControl, LCDC_BG_ENABLE) # 0 \/ And8(p.lcdControl, LCDC_OBJ_ENABLE) # 0
    THEN [p EXCEPT !.drawn = p.lyCounter]
    ELSE p

\* PPU.Step that goes on to the next mode while the clock allows it
PPUStep_cascades(p, cycles) ==
    LET q == [p EXCEPT !.clock = p.clock + cycles]
    IN IF And8(p.lcdControl, LCDC_LCD_ENABLE) = 0 THEN p
       ELSE CASE q.mode = MODE_OAM ->
                   IF q.clock >= 80 + 172
                   THEN [renderScanline(q) EXCEPT !.mode = MODE_HBLANK,
                                                  !.clock = q.clock - (80 + 172)]
                   ELSE IF q.clock >= 80
                   THEN [q EXCEPT !.mode = MODE_VRAM, !.clock = q.clock - 80]
                   ELSE q
              [] q.mode = MODE_VRAM ->
                   IF q.clock >= 172
                   THEN [renderScanline(q) EXCEPT !.mode = MODE_HBLANK,
                                                  !.clock = q.clock - 172]
                   ELSE q
              [] q.mode = MODE_HBLANK ->
                   IF q.clock >= 204
                   THEN LET ly == (q.lyCounter + 1) % 256
                        IN [q EXCEPT !.clock = q.clock - 204, !.lyCounter = ly,
                                     !.mode = IF ly = 144 THEN MODE_VBLANK ELSE MODE_OAM]
                   ELSE q
              [] q.mode = MODE_VBLANK ->
                   IF q.clock >= 456
                   THEN LET ly == (q.lyCounter + 1) % 256
                        IN IF ly > 153
                           THEN [q EXCEPT !.clock = q.clock - 456, !.lyCounter = 0,
                                          !.mode = MODE_OAM]
                           ELSE [q EXCEPT !.clock = q.clock - 456, !.lyCounter = ly]
                   ELSE q
              [] OTHER -> q

\* PPU.Step(cycles)
PPUStep(p, cycles) ==
    LET q == [p EXCEPT !.clock = p.clock + cycles]
    IN IF And8(p.lcdControl, LCDC_LCD_ENABLE) = 0 THEN p
       ELSE CASE q.mode = MODE_OAM ->
                   IF q.clock >= 80
                   THEN [q EXCEPT !.mode = MODE_VRAM, !.clock = q.clock - 80]
                   ELSE q
              [] q.mode = MODE_VRAM ->
                   IF q.clock >= 172
                   THEN [renderScanline(q) EXCEPT !.mode = MODE_HBLANK,
                                                  !.clock = q.clock - 172]
                   ELSE q
              [] q.mode = MODE_HBLANK ->
                   IF q.clock >= 204
                   THEN LET ly == (q.lyCounter + 1) % 256
                        IN [q EXCEPT !.clock = q.clock - 204, !.lyCounter = ly,
                                     !.mode = IF ly = 144 THEN MODE_VBLANK ELSE MODE_OAM]
                   ELSE q
              [] q.mode = MODE_VBLANK ->
                   IF q.clock >= 456
                   THEN LET ly == (q.lyCounter + 1) % 256
                        IN IF ly > 153
                           THEN [q EXCEPT !.clock = q.clock - 456, !.lyCounter = 0,
                                          !.mode = MODE_OAM]
                           ELSE [q EXCEPT !.clock = q.clock - 456, !.lyCounter = ly]
                   ELSE q
              [] OTHER -> q

\* PPU.Write on its registers 0xFF40 .. 0xFF43
PPUWrite(p, addr, val) ==
    CASE addr = 65344 -> [p EXCEPT !.lcdControl = val]
      [] addr = 65345 -> [p EXCEPT !.lcdStatus = val]
      [] addr = 65346 -> [p EXCEPT !.scrollY = val]
      [] addr = 65347 -> [p EXCEPT !.scrollX = val]
      [] OTHER -> p

----------------------------------------------------------------------------
(* The state machine *)

\* the CPU (with its memory and the process's fate) as one record
Cur ==
    [A |-> A, F |-> F, B |-> B, C |-> C, D |-> D, E |-> E, H |-> H, L |-> L,
     PC |-> PC, SP |-> SP, IME |-> IME, stopped |-> stopped, mem |-> mem,
     fatal |-> fatal]

Becomes(s) ==
    /\ A' = s.A /\ F' = s.F /\ B' = s.B /\ C' = s.C /\ D' = s.D /\ E' = s.E
    /\ H' = s.H /\ L' = s.L /\ PC' = s.PC /\ SP' = s.SP /\ IME' = s.IME
    /\ stopped' = s.stopped /\ mem' = s.mem /\ fatal' = s.fatal

\* cpu.New that starts at the boot ROM's entry
New_bootEntry ==
    [A |-> 1, F |-> 176, B |-> 0, C |-> 19, D |-> 0, E |-> 216, H |-> 1, L |-> 77,
     PC |-> 0, SP |-> 65534, IME |-> FALSE, stopped |-> FALSE,
     mem |-> [x \in {} |-> 0], fatal |-> ""]

\* cpu.New on mmu.New
New ==
    [A |-> 1, F |-> 176, B |-> 0, C |-> 19, D |-> 0, E |-> 216, H |-> 1, L |-> 77,
     PC |-> 256, SP |-> 65534, IME |-> FALSE, stopped |-> FALSE,
     mem |-> [x \in {} |-> 0], fatal |-> ""]

Init ==
    /\ A = New.A /\ F = New.F /\ B = New.B /\ C = New.C /\ D = New.D /\ E = New.E
    /\ H = New.H /\ L = New.L /\ PC = New.PC /\ SP = New.SP /\ IME = New.IME
    /\ stopped = New.stopped /\ mem = New.mem /\ fatal = New.fatal
    /\ ready = FALSE
    /\ hist = <<>>
    /\ last = [op |-> "none"]
    /\ run = [at |-> "idle", i |-> 0]
    /\ ppu = NewPPU

\* Fetch: the byte at PC, and PC++
Fetch(s) == [s EXCEPT !.PC = Word(s.PC + 1)]

\* Step: Execute(Fetch()).  A process that log.Fatalf ended takes no step.
Step ==
    /\ fatal = ""
    /\ Len(hist) < MaxSteps
    /\ Becomes(Execute(Fetch(Cur), Read(mem, PC)))
    /\ hist' = Append(hist, Cur)
    /\ UNCHANGED <<ready, last, run, ppu>>

\* mem.Write for each [address, value] pair of ram, in order
RECURSIVE WriteRam(_, _)
WriteRam(m, ram) ==
    IF ram = <<>> THEN m
    ELSE WriteRam(Write(m, Head(ram)[1], Head(ram)[2]), Tail(ram))

\* the test driver's setup: the registers are assigned, IE is written to 0xFFFF
\* and each ram pair is written
setup(i) ==
    /\ ~ready
    /\ hist = <<>>
    /\ Becomes([Cur EXCEPT !.PC = i.PC, !.SP = i.SP, !.A = i.A, !.B = i.B, !.C = i.C,
                           !.D = i.D, !.E = i.E, !.F = i.F, !.H = i.H, !.L = i.L,
                           !.IME = (i.IME # 0),
                           !.mem = WriteRam(Write(mem, 65535, i.IE), i.Ram)])
    /\ ready' = TRUE
    /\ UNCHANGED <<hist, last, run, ppu>>

----------------------------------------------------------------------------
(* Sessions.  A session is the driver's setup of one captured state and    *)
(* then Steps.  The captured states are drawn from the sets below: the     *)
(* instruction at PC is any opcode (any second byte after 0xCB), F is any  *)
(* value with a clear low nibble, and the stack and the byte at HL hold    *)
(* bytes with bits in both nibbles.                                        *)

FlagValues == {16 * k : k \in 0..15}
AccValues == {0, 1, 154, 255}
OperandValues == {0, 5, 128, 254}

\* the bytes that may follow the opcode: every second byte after the 0xCB prefix
SecondBytes(op) == IF op = 203 THEN 0..255 ELSE OperandValues

\* a captured state: power-on registers but for A and F, the instruction
\* op b1 b2 at PC, data at HL and two bytes on the stack
Captured(pc, sp, op, b1, b2, a, f) ==
    [PC |-> pc, SP |-> sp, A |-> a, B |-> New.B, C |-> New.C, D |-> New.D, E |-> New.E,
     F |-> f, H |-> New.H, L |-> New.L, IME |-> 0, IE |-> 0,
     Ram |-> << <<(New.H * 256) + New.L, 143>>, <<sp, 63>>, <<Word(sp + 1), 2>>,
                <<pc, op>>, <<Word(pc + 1), b1>>, <<Word(pc + 2), b2>> >>]

SetupAny ==
    /\ ~ready
    /\ \E op \in 0..255 : \E b1 \in SecondBytes(op) : \E a \in AccValues : \E f \in FlagValues :
          setup(Captured(New.PC, New.SP, op, b1, 1, a, f))

Next == SetupAny \/ Step

Spec == Init /\ [][Next]_vars

(* Sessions on control flow and the stack: the instruction is a jump, call, *)
(* return, RST, PUSH, POP, STOP, HALT or LD (a16),SP; PC and SP also sit at *)
(* the ends of the address space and next to each other; F is any byte; a   *)
(* RET waits at the address the operand names.                              *)

RstOpcodes == {199, 207, 215, 223, 231, 239, 247, 255}
PushOpcodes == {197, 213, 229, 245}
PopOpcodes == {193, 209, 225, 241}
FlowOpcodes ==
    CondOpcodes \cup RstOpcodes \cup PushOpcodes \cup PopOpcodes
        \cup {8, 16, 24, 118, 195, 201, 205, 217}

FlowPCs == {256, 65534}
FlowSPs == {65534, 1, 259}
FlowOperands == {0, 5, 80, 128, 254} \cup PopOpcodes
FlowHighs == {1, 192}
FlowFlags == {0, 16, 128, 144, 111, 255}
FlowRegs ==
    { [A |-> 18, B |-> 52, C |-> 86, D |-> 120, E |-> 154, H |-> 188, L |-> 222],
      [A |-> 0, B |-> 255, C |-> 0, D |-> 1, E |-> 255, H |-> 193, L |-> 15] }

CapturedFlow(pc, sp, op, b1, b2, f, r) ==
    [PC |-> pc, SP |-> sp, A |-> r.A, B |-> r.B, C |-> r.C, D |-> r.D, E |-> r.E,
     F |-> f, H |-> r.H, L |-> r.L, IME |-> 0, IE |-> 0,
     Ram |-> << <<sp, 63>>, <<Word(sp + 1), 2>>, <<(b2 * 256) + b1, 201>>,
                <<pc, op>>, <<Word(pc + 1), b1>>, <<Word(pc + 2), b2>> >>]

SetupFlow ==
    /\ ~ready
    /\ \E op \in FlowOpcodes : \E pc \in FlowPCs : \E sp \in FlowSPs :
       \E b1 \in FlowOperands : \E b2 \in FlowHighs : \E f \in FlowFlags : \E r \in FlowRegs :
          setup(CapturedFlow(pc, sp, op, b1, b2, f, r))

NextFlow == SetupFlow \/ Step

SpecFlow == Init /\ [][NextFlow]_vars

(* Sessions on data.  The instruction at PC is repeated in memory, so that  *)
(* the Steps of a session execute it again on its own result.  The         *)
(* registers are the power-on ones but for A, F and the operand the        *)
(* instruction names: register k of B, C, D, E, H, L, (HL), A holds v.     *)

DataValues == {0, 1, 3, 5, 9, 15, 16, 99, 127, 128, 153, 154, 159, 240, 254, 255}
WordValues == {0, 1, 255, 256, 3840, 4095, 4096, 32767, 32768, 61441, 65281, 65535}
CarryFlags == {0, 16, 176, 224}

\* the ram pairs that place code at pc, three times in a row
Program(pc, code) ==
    [i \in 1..(3 * Len(code)) |-> <<Word(pc + i - 1), code[((i - 1) % Len(code)) + 1]>>]

\* a captured state with the power-on registers, A = a, F = f and the byte v
\* in operand k (the byte at HL for k = 6), running code
CapturedData(code, a, f, k, v) ==
    LET base == [PC |-> New.PC, SP |-> New.SP, A |-> a, B |-> New.B, C |-> New.C,
                 D |-> New.D, E |-> New.E, F |-> f, H |-> New.H, L |-> New.L,
                 IME |-> 0, IE |-> 0, Ram |-> <<>>]
        regs == IF k = 6 THEN base ELSE [base EXCEPT ![Reg8(k)] = v]
    IN [regs EXCEPT !.Ram = << <<(regs.H * 256) + regs.L, IF k = 6 THEN v ELSE 143>> >>
                                \o Program(New.PC, code)]

\* a captured state for ADD HL,rr: HL = hl and the pair the opcode names = pair
CapturedWide(op, hl, pair, f) ==
    LET hi == pair \div 256
        lo == pair % 256
    IN [PC |-> New.PC,
        SP |-> IF op = 57 THEN pair ELSE New.SP,
        A |-> New.A,
        B |-> IF op = 9 THEN hi ELSE New.B,
        C |-> IF op = 9 THEN lo ELSE New.C,
        D |-> IF op = 25 THEN hi ELSE New.D,
        E |-> IF op = 25 THEN lo ELSE New.E,
        F |-> f, H |-> hl \div 256, L |-> hl % 256, IME |-> 0, IE |-> 0,
        Ram |-> Program(New.PC, <<op>>)]

IncOpcodes == {4, 12, 20, 28, 36, 44, 52, 60}
DecOpcodes == {5, 13, 21, 29, 37, 45, 53, 61}
AccOpcodes == {7, 15, 23, 31, 39, 47, 55, 63}
AddHLOpcodes == {9, 25, 41, 57}
AluD8Opcodes == {198, 206, 214, 222, 230, 238, 246, 254}

\* INC, DEC, the accumulator rotates, DAA, CPL, SCF, CCF on every byte, and
\* every 0xCB operation
SetupUnary ==
    /\ ~ready
    /\ \/ \E op \in IncOpcodes \cup DecOpcodes : \E v \in 0..255 : \E f \in FlagValues :
             setup(CapturedData(<<op>>, New.A, f, op \div 8, v))
       \/ \E op \in AccOpcodes : \E v \in 0..255 : \E f \in FlagValues :
             setup(CapturedData(<<op>>, v, f, 7, v))
       \/ \E b \in 0..255 : \E v \in DataValues : \E f \in FlagValues :
             setup(CapturedData(<<203, b>>, New.A, f, b % 8, v))

NextUnary == SetupUnary \/ Step

SpecUnary == Init /\ [][NextUnary]_vars

\* the ALU rows 0x80-0xBF, their d8 forms and ADD HL,rr
SetupArith ==
    /\ ~ready
    /\ \/ \E op \in 128..191 : \E a \in DataValues : \E v \in DataValues : \E f \in CarryFlags :
             setup(CapturedData(<<op>>, a, f, op % 8, v))
       \/ \E op \in AluD8Opcodes : \E a \in DataValues : \E v \in DataValues : \E f \in CarryFlags :
             setup(CapturedData(<<op, v>>, a, f, 6, 143))
       \/ \E op \in AddHLOpcodes : \E hl \in WordValues : \E pair \in WordValues : \E f \in FlagValues :
             setup(CapturedWide(op, hl, pair, f))

NextArith == SetupArith \/ Step

SpecArith == Init /\ [][NextArith]_vars

(* Sessions on RST and on IME: an RST with a RET at its vector, and any    *)
(* opcode in a captured state with IME either way, followed by a NOP, an   *)
(* arithmetic opcode, RETI, DI or EI.                                      *)

ImeOperands == OperandValues \cup {217, 243, 251}

\* a captured state with the instruction RST op at pc and a RET at the vector
CapturedRst(pc, sp, op, f, r) ==
    [PC |-> pc, SP |-> sp, A |-> r.A, B |-> r.B, C |-> r.C, D |-> r.D, E |-> r.E,
     F |-> f, H |-> r.H, L |-> r.L, IME |-> 0, IE |-> 0,
     Ram |-> << <<sp, 63>>, <<Word(sp + 1), 2>>, <<op - 199, 201>>, <<pc, op>> >>]

SetupSys ==
    /\ ~ready
    /\ \/ \E op \in RstOpcodes : \E pc \in FlowPCs : \E sp \in FlowSPs :
          \E f \in FlowFlags : \E r \in FlowRegs :
             setup(CapturedRst(pc, sp, op, f, r))
       \/ \E op \in 0..255 : \E ime \in {0, 1} : \E pc \in {New.PC, 65535} :
          \E b1 \in (IF op = 203 THEN 0..255 ELSE ImeOperands) :
             setup([Captured(pc, New.SP, op, b1, 1, New.A, New.F) EXCEPT !.IME = ime])

NextSys == SetupSys \/ Step

SpecSys == Init /\ [][NextSys]_vars

(* Sessions on the register pairs: INC rr and DEC rr with the pair the     *)
(* opcode names at the ends and in the middle of its range, and a driver   *)
(* that calls WriteBC, WriteDE or WriteHL on the CPU it has set up.        *)

WideOpcodes == {3, 11, 19, 27, 35, 43, 51, 59}

\* a captured state for INC rr / DEC rr: the pair of the opcode = pair
CapturedPair(op, pair, f) ==
    LET k == (op \div 16) % 4
        hi == pair \div 256
        lo == pair % 256
    IN [PC |-> New.PC,
        SP |-> IF k = 3 THEN pair ELSE New.SP,
        A |-> New.A,
        B |-> IF k = 0 THEN hi ELSE New.B,
        C |-> IF k = 0 THEN lo ELSE New.C,
        D |-> IF k = 1 THEN hi ELSE New.D,
        E |-> IF k = 1 THEN lo ELSE New.E,
        F |-> f,
        H |-> IF k = 2 THEN hi ELSE New.H,
        L |-> IF k = 2 THEN lo ELSE New.L,
        IME |-> 0, IE |-> 0,
        Ram |-> Program(New.PC, <<op>>)]

SetupPairs ==
    /\ ~ready
    /\ \E op \in WideOpcodes : \E pair \in WordValues : \E f \in CarryFlags :
          setup(CapturedPair(op, pair, f))

\* the driver calls WriteBC, WriteDE or WriteHL once, before the first Step
WritePair ==
    /\ ready
    /\ fatal = ""
    /\ hist = <<>>
    /\ last.op = "none"
    /\ \E data \in WordValues :
          \/ /\ Becomes(WriteBC(Cur, data))
             /\ last' = [op |-> "WriteBC", data |-> data, prior |-> Cur]
          \/ /\ Becomes(WriteDE(Cur, data))
             /\ last' = [op |-> "WriteDE", data |-> data, prior |-> Cur]
          \/ /\ Becomes(WriteHL(Cur, data))
             /\ last' = [op |-> "WriteHL", data |-> data, prior |-> Cur]
    /\ UNCHANGED <<ready, hist, run, ppu>>

NextPairs == SetupPairs \/ WritePair \/ Step

SpecPairs == Init /\ [][NextPairs]_vars

(* Sessions on ADD SP,s8 and LD HL,SP+s8: SP at the ends and in the middle *)
(* of its range and every operand byte.                                    *)

OffsetOpcodes == {232, 248}

\* a captured state with SP = sp and the instruction op b1
CapturedOffset(op, sp, b1, f) ==
    [PC |-> New.PC, SP |-> sp, A |-> New.A, B |-> New.B, C |-> New.C, D |-> New.D,
     E |-> New.E, F |-> f, H |-> New.H, L |-> New.L, IME |-> 0, IE |-> 0,
     Ram |-> Program(New.PC, <<op, b1>>)]

SetupOffset ==
    /\ ~ready
    /\ \E op \in OffsetOpcodes : \E sp \in WordValues : \E b1 \in 0..255 :
          \E f \in CarryFlags :
             setup(CapturedOffset(op, sp, b1, f))

NextOffset == SetupOffset \/ Step

SpecOffset == Init /\ [][NextOffset]_vars

(* The GameBoy: NewGameBoy is Init; the driver loads a ROM with LoadROM or *)
(* a block with mem.WriteBytes and calls Run, which takes three Steps.     *)
(* A payload is named by a number; Payload gives its bytes.                *)

\* the ROMs of Test_LoadSimpleROM
TestROMs == << <<0, 0, 0>>, <<6, 5, 128, 0>>, <<62, 5, 128, 175, 195, 0, 1>> >>

\* a ROM of 259 bytes that holds op 05 01 from 0x0100 and zeros before
LongROM(op) ==
    [k \in 1..259 |-> CASE k = 257 -> op [] k = 258 -> 5 [] k = 259 -> 1 [] OTHER -> 0]

\* an image of the whole memory, 64KB of non-zero bytes
FullImage == [k \in 1..65536 |-> 1 + (k % 255)]

Payload(id) ==
    CASE id \in 1..3 -> TestROMs[id]
      [] id = 4 -> <<>>
      [] id = 5 -> <<7, 0, 9>>
      [] id = 6 -> FullImage
      [] OTHER -> LongROM(id - 256)

BlockIds == 1..6
RomIds == (1..6) \cup (256..511)
BlockAddresses == {0, 1, 256, 65529, 65532, 65533, 65534, 65535}

\* a loop condition of Run that lets a fourth iteration in
RunContinues_fourth(i) == i < 4

\* the loop condition of Run
RunContinues(i) == i < 3

\* mem.WriteBytes(address, payload) as the driver calls it
WriteBlock ==
    /\ ~ready
    /\ fatal = ""
    /\ run.at = "idle"
    /\ last.op = "none"
    /\ \E address \in BlockAddresses : \E id \in BlockIds :
          /\ last' = [op |-> "WriteBytes", address |-> address, payload |-> id,
                      prior |-> mem]
          /\ IF SlicePanics(address, Payload(id))
             THEN /\ fatal' = "panic: slice bounds out of range"
                  /\ UNCHANGED mem
             ELSE /\ mem' = WriteBytes(mem, address, Payload(id))
                  /\ UNCHANGED fatal
    /\ UNCHANGED <<A, F, B, C, D, E, H, L, PC, SP, IME, stopped, ready, hist, run, ppu>>

\* GameBoy.LoadROM(rom): mem.WriteBytes(0, rom)
LoadROM ==
    /\ ~ready
    /\ fatal = ""
    /\ run.at = "idle"
    /\ last.op = "none"
    /\ \E id \in RomIds :
          /\ last' = [op |-> "LoadROM", address |-> 0, payload |-> id, prior |-> mem]
          /\ IF SlicePanics(0, Payload(id))
             THEN /\ fatal' = "panic: slice bounds out of range"
                  /\ UNCHANGED mem
             ELSE /\ mem' = WriteBytes(mem, 0, Payload(id))
                  /\ UNCHANGED fatal
    /\ UNCHANGED <<A, F, B, C, D, E, H, L, PC, SP, IME, stopped, ready, hist, run, ppu>>

\* GameBoy.Run is entered: i := 0
RunEnter ==
    /\ fatal = ""
    /\ run.at = "idle"
    /\ last.op = "LoadROM"
    /\ run' = [at |-> "loop", i |-> 0]
    /\ UNCHANGED <<A, F, B, C, D, E, H, L, PC, SP, IME, stopped, mem, fatal, ready, hist,
                   last, ppu>>

\* one iteration of the loop: gb.cpu.Step(); i++
RunStep ==
    /\ fatal = ""
    /\ run.at = "loop"
    /\ RunContinues(run.i)
    /\ Becomes(Execute(Fetch(Cur), Read(mem, PC)))
    /\ hist' = Append(hist, Cur)
    /\ run' = [run EXCEPT !.i = run.i + 1]
    /\ UNCHANGED <<ready, last, ppu>>

\* the loop condition fails and Run returns
RunReturn ==
    /\ fatal = ""
    /\ run.at = "loop"
    /\ ~RunContinues(run.i)
    /\ run' = [run EXCEPT !.at = "returned"]
    /\ UNCHANGED <<A, F, B, C, D, E, H, L, PC, SP, IME, stopped, mem, fatal, ready, hist,
                   last, ppu>>

NextBoy == WriteBlock \/ LoadROM \/ RunEnter \/ RunStep \/ RunReturn

SpecBoy == Init /\ [][NextBoy]_vars

\* Run is one goroutine that nothing suspends: it goes on while it can
SpecBoyFair == SpecBoy /\ WF_vars(RunStep \/ RunReturn)

(* The PPU and its driver, which calls Step with the cycles of an          *)
(* instruction or of a whole scanline and switches the LCD off and on      *)
(* through the register at 0xFF40.                                         *)

CycleValues == {4, 24, 80, 456}
ControlValues == {145, 17}

\* the driver calls ppu.Step(cycles)
PpuStep ==
    /\ \E cycles \in CycleValues :
          /\ ppu.clock + cycles <= MaxClock
          /\ ppu' = PPUStep(ppu, cycles)
          /\ last' = [op |-> "ppu.Step", cycles |-> cycles, prior |-> ppu]
    /\ UNCHANGED <<A, F, B, C, D, E, H, L, PC, SP, IME, stopped, mem, fatal, ready, hist,
                   run>>

\* the driver calls ppu.Write(0xFF40, val)
PpuWrite ==
    /\ \E val \in ControlValues :
          /\ ppu' = PPUWrite(ppu, 65344, val)
          /\ last' = [op |-> "ppu.Write", addr |-> 65344, val |-> val, prior |-> ppu]
    /\ UNCHANGED <<A, F, B, C, D, E, H, L, PC, SP, IME, stopped, mem, fatal, ready, hist,
                   run>>

NextPpu == PpuStep \/ PpuWrite

SpecPpu == Init /\ [][NextPpu]_vars

----------------------------------------------------------------------------
(* What the claims speak of *)

\* the number of Steps taken, the CPU before the n-th of them, the opcode it fetched
\* and the PC its Execute was entered with
Steps == Len(hist)
Before(n) == hist[n]
OpcodeOf(n) == Read(hist[n].mem, hist[n].PC)
EntryPC(n) == Word(hist[n].PC + 1)

\* the CPU after the n-th Step
After(n) == IF n = Steps THEN Cur ELSE hist[n + 1]

\* the little-endian operand of the n-th instruction
Operand16(n) ==
    Read(hist[n].mem, EntryPC(n)) + (Read(hist[n].mem, Word(EntryPC(n) + 1)) * 256)

\* the condition NZ, Z, NC, C that a conditional opcode names, on flags f
Cond(opcode, f) ==
    LET cc == (opcode \div 8) % 4
    IN CASE cc = 0 -> Bit(f, 7) = 0
         [] cc = 1 -> Bit(f, 7) = 1
         [] cc = 2 -> Bit(f, 4) = 0
         [] cc = 3 -> Bit(f, 4) = 1

CondJR == {32, 40, 48, 56}
CondJP == {194, 202, 210, 218}
CondCALL == {196, 204, 212, 220}
CondRET == {192, 200, 208, 216}

\* the register pair a PUSH (0xC5, 0xD5, 0xE5, 0xF5) or its POP (four less)
\* names, read from the CPU record s as <<high, low>>
PairOf(s, opcode) ==
    CASE opcode \in {193, 197} -> <<s.B, s.C>>
      [] opcode \in {209, 213} -> <<s.D, s.E>>
      [] opcode \in {225, 229} -> <<s.H, s.L>>
      [] opcode \in {241, 245} -> <<s.A, s.F>>

\* the CPU record s with that pair set to high and low
WithPair(s, opcode, high, low) ==
    CASE opcode \in {193, 197} -> [s EXCEPT !.B = high, !.C = low]
      [] opcode \in {209, 213} -> [s EXCEPT !.D = high, !.E = low]
      [] opcode \in {225, 229} -> [s EXCEPT !.H = high, !.L = low]
      [] opcode \in {241, 245} -> [s EXCEPT !.A = high, !.F = low]

\* the byte F with the flags Zero, Subtract, HalfCarry, Carry as given
FlagByte(z, n, h, c) ==
    (IF z THEN 128 ELSE 0) + (IF n THEN 64 ELSE 0) + (IF h THEN 32 ELSE 0)
        + (IF c THEN 16 ELSE 0)

\* 1 when Carry is set in f
CarryIn(f) == (f \div 16) % 2

\* the second operand of an ALU opcode on the CPU record s after the fetch:
\* the byte at PC for the d8 forms, else the operand of the column
AluSource(s, op) == IF op >= 192 THEN Read(s.mem, s.PC) ELSE Operand(s, op % 8)

\* s with its PC past the d8 operand when op has one
PastOperand(s, op) == IF op >= 192 THEN [s EXCEPT !.PC = Word(s.PC + 1)] ELSE s

\* the CPU record s with the byte v in operand k of B, C, D, E, H, L, (HL), A
WithOperand(s, k, v) ==
    IF k = 6 THEN [s EXCEPT !.mem = Write(s.mem, HL(s), v)] ELSE [s EXCEPT ![Reg8(k)] = v]

\* the 16-bit term of ADD HL,rr (0x09, 0x19, 0x29, 0x39) on the CPU record s
TermOf(s, op) ==
    CASE op = 9 -> (s.B * 256) + s.C
      [] op = 25 -> (s.D * 256) + s.E
      [] op = 41 -> (s.H * 256) + s.L
      [] op = 57 -> s.SP

\* the process is running: log.Fatalf has not ended it
HostAlive(s) == s.fatal = ""

----------------------------------------------------------------------------
(* C1..C10 *)

\* C1: in every state of a session that starts from power-on or from a
\* captured state with a clear low nibble of F, bits 0-3 of F are zero.
C1_FLowNibbleZero == F % 16 = 0

\* POP AF has loaded F from a stack byte with bits in its low nibble
C1_Witness ==
    /\ Steps > 0
    /\ OpcodeOf(Steps) = 241
    /\ Read(Before(Steps).mem, Before(Steps).SP) % 16 # 0
    /\ F = 48

\* C2: CALL a16 at address p sets PC to its operand and pushes p + 3; a RET
\* executed next leaves PC = p + 3 and SP as before the CALL.
C2_CallPushesNextInstruction ==
    \A n \in 1..Steps :
        OpcodeOf(n) = 205 =>
            LET p == Before(n).PC
                a == After(n)
            IN /\ a.PC = Operand16(n)
               /\ a.SP = Word(Before(n).SP + 65534)
               /\ Read(a.mem, a.SP) + (Read(a.mem, Word(a.SP + 1)) * 256) = Word(p + 3)
               /\ (n < Steps /\ OpcodeOf(n + 1) = 201) =>
                     /\ After(n + 1).PC = Word(p + 3)
                     /\ After(n + 1).SP = Before(n).SP

\* C3: a conditional JR, JP or CALL whose condition is false consumes its
\* operand (PC = p + 1 for JR, p + 2 for JP and CALL) and changes neither SP
\* nor memory.
C3_NotTakenConsumesOperand ==
    \A n \in 1..Steps :
        LET op == OpcodeOf(n)
        IN (op \in CondJR \cup CondJP \cup CondCALL /\ ~Cond(op, Before(n).F)) =>
              /\ After(n).PC = Word(EntryPC(n) + (IF op \in CondJR THEN 1 ELSE 2))
              /\ After(n).SP = Before(n).SP
              /\ After(n).mem = Before(n).mem

\* the CPU after the branch of a conditional opcode is taken
Taken(s, op) ==
    CASE op \in CondJR -> jr(s)
      [] op \in CondJP -> jp(s)
      [] op \in CondCALL -> call(s)
      [] op \in CondRET -> ret(s)

\* C4: a conditional JR, JP, CALL or RET takes its branch if and only if its
\* condition holds on F; a conditional RET that is not taken leaves PC and SP.
C4_TakenIffCondition ==
    \A n \in 1..Steps :
        LET op == OpcodeOf(n)
            s == Fetch(Before(n))
            t == Taken(s, op)
        IN op \in CondOpcodes =>
              IF Cond(op, s.F) THEN After(n) = t
              ELSE /\ After(n).SP = s.SP
                   /\ After(n).mem = s.mem
                   /\ After(n).PC = t.PC => t.PC \in {s.PC, Word(s.PC + 1), Word(s.PC + 2)}
                   /\ op \in CondRET => After(n).PC = s.PC

\* C5: once STOP or HALT has executed, a Step fetches nothing and changes
\* nothing.
C5_StoppedCoreIsInert ==
    \A n \in 1..Steps : Before(n).stopped => After(n) = Before(n)

\* C6: PUSH rr and then POP rr of the same pair leave the pair and SP as they
\* were before the PUSH, except that F comes back with a clear low nibble; POP
\* AF on any two stack bytes loads A from the upper one and F from the lower
\* one with its low nibble cleared.
C6_PushPopRestores ==
    \A n \in 1..Steps :
        LET op == OpcodeOf(n)
            b == Before(n)
        IN /\ (op \in PushOpcodes /\ n < Steps /\ OpcodeOf(n + 1) = op - 4) =>
                 /\ After(n + 1).SP = b.SP
                 /\ PairOf(After(n + 1), op) =
                        <<PairOf(b, op)[1],
                          IF op = 245 THEN And8(b.F, 240) ELSE PairOf(b, op)[2]>>
           /\ op = 241 =>
                 /\ After(n).A = Read(b.mem, Word(b.SP + 1))
                 /\ After(n).F = And8(Read(b.mem, b.SP), 240)

\* PUSH AF with bits in the low nibble of F, then POP AF: A and SP are back
\* and F is back without its low nibble
C6_Witness ==
    /\ Steps = 2
    /\ OpcodeOf(1) = 245
    /\ OpcodeOf(2) = 241
    /\ Before(1).F = 111
    /\ F = 96
    /\ A = Before(1).A
    /\ SP = Before(1).SP

\* C7: PUSH rr leaves SP two lower, the high register at the new SP + 1, the
\* low register at the new SP and everything else as it was; POP rr loads the
\* low register from SP and the high register from SP + 1 (F without its low
\* nibble), leaves SP two higher and everything else, memory included, as it
\* was.
C7_PushPopEffect ==
    \A n \in 1..Steps :
        LET op == OpcodeOf(n)
            s == Fetch(Before(n))
            down == Word(s.SP + 65534)
            low == Read(s.mem, s.SP)
        IN /\ op \in PushOpcodes =>
                 After(n) = [s EXCEPT !.SP = down,
                                      !.mem = Write(Write(s.mem, Word(down + 1),
                                                          PairOf(s, op)[1]),
                                                    down, PairOf(s, op)[2])]
           /\ op \in PopOpcodes =>
                 After(n) = [WithPair(s, op, Read(s.mem, Word(s.SP + 1)),
                                      IF op = 241 THEN And8(low, 240) ELSE low)
                               EXCEPT !.SP = Word(s.SP + 2)]

\* PUSH DE at SP = 1: the stack wraps, E is at 0xFFFF and D at 0x0000
C7_Witness ==
    /\ Steps > 0
    /\ OpcodeOf(Steps) = 213
    /\ Before(Steps).SP = 1
    /\ D # E
    /\ SP = 65535
    /\ Read(mem, 65535) = E
    /\ Read(mem, 0) = D

\* C8: an opcode without semantics leaves the caller running with the fault:
\* the process is not ended, no later Step executes, and registers (the
\* fetch's PC aside) and memory are as before the instruction.
C8_FaultReportedToCaller ==
    \A n \in 1..Steps :
        OpcodeOf(n) \in IllegalOpcodes =>
            /\ HostAlive(After(n))
            /\ n = Steps
            /\ [After(n) EXCEPT !.fatal = ""] = Fetch(Before(n))

\* C9: no opcode reaches the default arm of Execute or of handleCBx: every
\* primary opcode but the eleven unassigned ones, and every second byte after
\* 0xCB, executes without a fault.
C9_AllSlotsDefined ==
    /\ fatal \notin {"opcode unhandled", "Unhandled CB opcode"}
    /\ \A n \in 1..Steps :
          OpcodeOf(n) \notin IllegalOpcodes => HostAlive(After(n))

\* 0xCB 0xFF (SET 7,A), the last slot of the extended table, has executed
C9_Witness ==
    /\ Steps > 0
    /\ OpcodeOf(Steps) = 203
    /\ Read(Before(Steps).mem, EntryPC(Steps)) = 255
    /\ Before(Steps).A = 1
    /\ A = 129
    /\ fatal = ""

\* C10: LD (a16),SP stores the low byte of SP at a16 and the high byte at
\* a16 + 1, a16 being the little-endian operand, advances PC by 2 and changes
\* nothing else (a16 and a16 + 1 off the operand bytes).
C10_LdA16SP ==
    \A n \in 1..Steps :
        LET s == Fetch(Before(n))
            a16 == Operand16(n)
        IN (/\ OpcodeOf(n) = 8
            /\ {a16, Word(a16 + 1)} \cap {s.PC, Word(s.PC + 1)} = {}) =>
              After(n) = [s EXCEPT !.PC = Word(s.PC + 2),
                                   !.mem = Write(Write(s.mem, a16, s.SP % 256),
                                                 Word(a16 + 1), s.SP \div 256)]

\* C11: INC (HL) and DEC (HL) store the byte at HL plus or minus one and leave
\* F as INC r and DEC r leave it for that byte and the same prior F; nothing
\* else changes.
C11_IncDecHLAsRegister ==
    \A n \in 1..Steps :
        LET op == OpcodeOf(n)
            s == Fetch(Before(n))
            v == Read(s.mem, HL(s))
            r == IF op = 52 THEN inc(s.F, v) ELSE dec(s.F, v)
        IN op \in {52, 53} =>
              After(n) = [s EXCEPT !.mem = Write(s.mem, HL(s), r.reg), !.F = r.F]

\* C12: INC r stores r + 1 and DEC r stores r - 1 (mod 256); Carry stays, Zero
\* is set iff the result is 0, Subtract is clear for INC and set for DEC,
\* HalfCarry is set iff the old low nibble was 15 (INC) or 0 (DEC); nothing
\* else changes.
C12_IncDecRegister ==
    \A n \in 1..Steps :
        LET op == OpcodeOf(n)
            s == Fetch(Before(n))
            r == Reg8(op \div 8)
            old == s[r]
            up == (old + 1) % 256
            down == (old + 255) % 256
            c == CarryIn(s.F) = 1
        IN /\ op \in IncOpcodes \ {52} =>
                 After(n) = [s EXCEPT ![r] = up,
                                      !.F = FlagByte(up = 0, FALSE, old % 16 = 15, c)]
           /\ op \in DecOpcodes \ {53} =>
                 After(n) = [s EXCEPT ![r] = down,
                                      !.F = FlagByte(down = 0, TRUE, old % 16 = 0, c)]

\* INC B of 0xFF with Carry set gave 0x00 with Zero, HalfCarry and Carry, or
\* DEC E of 0x00 with Carry clear gave 0xFF with Subtract and HalfCarry
C12_Witness ==
    /\ Steps > 0
    /\ \/ /\ OpcodeOf(Steps) = 4 /\ Before(Steps).B = 255 /\ Before(Steps).F = 16
          /\ B = 0 /\ F = 176
       \/ /\ OpcodeOf(Steps) = 29 /\ Before(Steps).E = 0 /\ Before(Steps).F = 128
          /\ E = 255 /\ F = 96

\* C13: ADD and ADC (0x80-0x8F, 0xC6, 0xCE) leave A = (dst + src + carryIn)
\* mod 256, carryIn being 0 for ADD and the prior Carry for ADC, and F = Zero
\* iff the result is 0, Subtract clear, HalfCarry iff the low nibbles and
\* carryIn sum above 15, Carry iff the sum is above 255; nothing else changes
\* but the PC of the d8 forms.
C13_AddAdc ==
    \A n \in 1..Steps :
        LET op == OpcodeOf(n)
            s == Fetch(Before(n))
            dst == s.A
            src == AluSource(s, op)
            carryIn == IF op \in 136..143 \cup {206} THEN CarryIn(s.F) ELSE 0
            sum == dst + src + carryIn
        IN op \in 128..143 \cup {198, 206} =>
              After(n) = [PastOperand(s, op) EXCEPT
                             !.A = sum % 256,
                             !.F = FlagByte(sum % 256 = 0, FALSE,
                                            (dst % 16) + (src % 16) + carryIn > 15,
                                            sum > 255)]

\* ADC A,B of 0xFF + 0x00 with Carry set gave 0x00 with Zero, HalfCarry and
\* Carry
C13_Witness ==
    /\ Steps > 0
    /\ OpcodeOf(Steps) = 136
    /\ Before(Steps).A = 255
    /\ Before(Steps).B = 0
    /\ Before(Steps).F = 16
    /\ A = 0
    /\ F = 176

\* C14: SUB and SBC (0x90-0x9F, 0xD6, 0xDE) leave A = (dst - src - carryIn)
\* mod 256, carryIn being 0 for SUB and the prior Carry for SBC, and F =
\* Subtract set, Zero iff the result is 0, HalfCarry iff dst's low nibble is
\* below src's plus carryIn, Carry iff dst is below src plus carryIn; nothing
\* else changes but the PC of the d8 forms.
C14_SubSbc ==
    \A n \in 1..Steps :
        LET op == OpcodeOf(n)
            s == Fetch(Before(n))
            dst == s.A
            src == AluSource(s, op)
            carryIn == IF op \in 152..159 \cup {222} THEN CarryIn(s.F) ELSE 0
            diff == (dst + 512 - src - carryIn) % 256
        IN op \in 144..159 \cup {214, 222} =>
              After(n) = [PastOperand(s, op) EXCEPT
                             !.A = diff,
                             !.F = FlagByte(diff = 0, TRUE,
                                            (dst % 16) < (src % 16) + carryIn,
                                            dst < src + carryIn)]

\* SBC A,C of 0x10 - 0x0F with Carry set gave 0x00 with Zero, Subtract and
\* HalfCarry: the borrow out of the low nibble is due to the carry
C14_Witness ==
    /\ Steps > 0
    /\ OpcodeOf(Steps) = 153
    /\ Before(Steps).A = 16
    /\ Before(Steps).C = 15
    /\ Before(Steps).F = 16
    /\ A = 0
    /\ F = 224

\* C15: CP (0xB8-0xBF, 0xFE) changes F and the PC of the d8 form only, each
\* time it executes, and leaves the F of SUB on the same A and operand.
C15_CpOnlyFlags ==
    \A n \in 1..Steps :
        LET op == OpcodeOf(n)
            s == Fetch(Before(n))
            dst == s.A
            src == AluSource(s, op)
        IN op \in 184..191 \cup {254} =>
              After(n) = [PastOperand(s, op) EXCEPT
                             !.F = FlagByte(dst = src, TRUE, (dst % 16) < (src % 16),
                                            dst < src)]

\* CP B has executed twice with A below B: A is what it was, Carry is set
C15_Witness ==
    /\ Steps = 2
    /\ OpcodeOf(1) = 184
    /\ OpcodeOf(2) = 184
    /\ Before(1).A = 5
    /\ Before(1).B = 154
    /\ A = 5
    /\ F = 112

\* C16: DAA follows the packed-BCD table.  After an addition (Subtract clear)
\* 0x60 is added and Carry set iff the original A is above 0x99 or Carry was
\* set, and 0x06 is added iff the original low nibble is above 9 or HalfCarry
\* was set; after a subtraction 0x60 and 0x06 are subtracted iff Carry and
\* HalfCarry were set and Carry stays.  HalfCarry ends clear, Subtract stays,
\* Zero is set iff the final A is 0; nothing else changes.
C16_DaaTruthTable ==
    \A n \in 1..Steps :
        LET s == Fetch(Before(n))
            a == s.A
            sb == Bit(s.F, 6) = 1
            h == Bit(s.F, 5) = 1
            c == Bit(s.F, 4) = 1
            high == IF sb THEN c ELSE (a > 153 \/ c)
            low == IF sb THEN h ELSE ((a % 16) > 9 \/ h)
            fix == (IF high THEN 96 ELSE 0) + (IF low THEN 6 ELSE 0)
            out == IF sb THEN (a + 256 - fix) % 256 ELSE (a + fix) % 256
        IN OpcodeOf(n) = 39 =>
              After(n) = [s EXCEPT !.A = out, !.F = FlagByte(out = 0, sb, FALSE, high)]

\* C17: RLCA, RRCA, RLA and RRA leave F = Carry alone, set iff the bit
\* ejected is 1: RLCA and RRCA rotate A by one bit, the bit ejected entering
\* at the other end; RLA and RRA shift A by one bit, the prior Carry entering
\* at the other end; nothing else changes.
C17_AccumulatorRotates ==
    \A n \in 1..Steps :
        LET op == OpcodeOf(n)
            s == Fetch(Before(n))
            a == s.A
            cin == CarryIn(s.F)
            left == op \in {7, 23}
            ejected == IF left THEN a \div 128 ELSE a % 2
            entering == IF op \in {7, 15} THEN ejected ELSE cin
            out == IF left THEN ((a * 2) % 256) + entering
                   ELSE (a \div 2) + (128 * entering)
        IN op \in {7, 15, 23, 31} =>
              After(n) = [s EXCEPT !.A = out, !.F = 16 * ejected]

\* RLCA of 0x80 with Zero, Subtract and HalfCarry set and Carry clear gave
\* A = 0x01 and F = Carry
C17_Witness ==
    /\ Steps > 0
    /\ OpcodeOf(Steps) = 7
    /\ Before(Steps).A = 128
    /\ Before(Steps).F = 224
    /\ A = 1
    /\ F = 16

\* C18: 0xCB 0x00-0x3F (RLC, RRC, RL, RR, SLA, SRA, SWAP, SRL on B, C, D, E,
\* H, L, (HL), A) store the rotated, shifted or swapped byte in the operand
\* and leave F = Zero iff that byte is 0, Subtract and HalfCarry clear, Carry
\* = the bit ejected (clear for SWAP); PC is past the second byte and nothing
\* else changes.
C18_ExtendedRotates ==
    \A n \in 1..Steps :
        LET s == Fetch(Before(n))
            b == Read(s.mem, s.PC)
            s1 == [s EXCEPT !.PC = Word(s.PC + 1)]
            g == b \div 8
            v == Operand(s1, b % 8)
            cin == CarryIn(s.F)
            left == g \in {0, 2, 4}
            ejected == IF g = 6 THEN 0 ELSE IF left THEN v \div 128 ELSE v % 2
            entering == CASE g \in {0, 1} -> ejected
                          [] g \in {2, 3} -> cin
                          [] g = 5 -> v \div 128
                          [] OTHER -> 0
            out == IF g = 6 THEN ((v % 16) * 16) + (v \div 16)
                   ELSE IF left THEN ((v * 2) % 256) + entering
                   ELSE (v \div 2) + (128 * entering)
        IN (OpcodeOf(n) = 203 /\ b < 64) =>
              After(n) = [WithOperand(s1, b % 8, out) EXCEPT
                             !.F = FlagByte(out = 0, FALSE, FALSE, ejected = 1)]

\* SRA D of 0x99 gave 0xCC (bit 7 kept) with Carry alone
C18_Witness ==
    /\ Steps > 0
    /\ OpcodeOf(Steps) = 203
    /\ Read(Before(Steps).mem, EntryPC(Steps)) = 42
    /\ Before(Steps).D = 153
    /\ Before(Steps).F = 224
    /\ D = 204
    /\ F = 16

\* C19: ADD HL,rr leaves HL = (HL + rr) mod 65536, Subtract clear, Carry set
\* iff HL + rr is above 0xFFFF and Zero as it was; but for H, L and F nothing
\* changes.
C19_AddHL ==
    \A n \in 1..Steps :
        LET op == OpcodeOf(n)
            s == Fetch(Before(n))
            sum == (s.H * 256) + s.L + TermOf(s, op)
            a == After(n)
        IN op \in AddHLOpcodes =>
              /\ (a.H * 256) + a.L = sum % 65536
              /\ Bit(a.F, 7) = Bit(s.F, 7)
              /\ Bit(a.F, 6) = 0
              /\ Bit(a.F, 4) = (IF sum > 65535 THEN 1 ELSE 0)
              /\ [a EXCEPT !.H = 0, !.L = 0, !.F = 0] = [s EXCEPT !.H = 0, !.L = 0, !.F = 0]

\* ADD HL,DE of 0xFFFF + 0x0001 with Zero and Subtract set gave HL = 0x0000,
\* Zero still set, Subtract clear, Carry set
C19_Witness ==
    /\ Steps > 0
    /\ OpcodeOf(Steps) = 25
    /\ Before(Steps).H = 255 /\ Before(Steps).L = 255
    /\ Before(Steps).D = 0 /\ Before(Steps).E = 1
    /\ Before(Steps).F = 192
    /\ H = 0 /\ L = 0
    /\ Bit(F, 7) = 1 /\ Bit(F, 6) = 0 /\ Bit(F, 4) = 1

\* C20: after ADD HL,rr HalfCarry is the carry out of bit 11: set iff
\* (HL & 0x0FFF) + (rr & 0x0FFF) is above 0x0FFF.
C20_AddHLHalfCarryBit11 ==
    \A n \in 1..Steps :
        LET op == OpcodeOf(n)
            s == Fetch(Before(n))
            hl == (s.H * 256) + s.L
        IN op \in AddHLOpcodes =>
              (Bit(After(n).F, 5) = 1 <=> (hl % 4096) + (TermOf(s, op) % 4096) > 4095)

----------------------------------------------------------------------------
(* C21..C30 *)

\* the target of a JR whose Execute is entered with PC = p and operand byte d:
\* p + 1 + s modulo 65536, s being d as a signed 8-bit value
JrTarget(p, d) == (p + 1 + d + (IF d >= 128 THEN 65536 - 256 ELSE 0)) % 65536

\* C21: a taken JR with operand d at address p sets PC to (p + 1 + s) mod
\* 65536, s being d read as a signed 8-bit value, and changes nothing else.
\* JR s8 is always taken; a conditional JR either leaves the state of its
\* entry or is taken, and JR NZ, JR Z and JR C are taken when their
\* condition holds.
C21_TakenJrDisplacement ==
    \A n \in 1..Steps :
        LET op == OpcodeOf(n)
            s == Fetch(Before(n))
            target == [s EXCEPT !.PC = JrTarget(s.PC, Read(s.mem, s.PC))]
        IN /\ op = 24 => After(n) = target
           /\ op \in CondJR => After(n) \in {s, target}
           /\ (op \in {32, 40, 56} /\ Cond(op, s.F)) => After(n) = target

\* JR -2 at 0x0100 has been taken twice, each time back to itself
C21_Witness ==
    /\ Steps = 2
    /\ OpcodeOf(1) = 24 /\ OpcodeOf(2) = 24
    /\ Before(1).PC = 256 /\ Read(Before(1).mem, 257) = 254
    /\ Before(2).PC = 256
    /\ PC = 256

\* C22: JP a16 and every conditional JP whose condition holds set PC to the
\* little-endian operand mem[p] + 256 * mem[p+1] and change no other
\* register, no flag and no memory.
C22_JpAbsolute ==
    \A n \in 1..Steps :
        LET op == OpcodeOf(n)
            s == Fetch(Before(n))
        IN (op = 195 \/ (op \in CondJP /\ Cond(op, s.F))) =>
              After(n) = [s EXCEPT !.PC = Operand16(n)]

\* C3 50 01 at 0x0100 has left PC = 0x0150
C22_Witness ==
    /\ Steps >= 1
    /\ OpcodeOf(1) = 195
    /\ Before(1).PC = 256
    /\ Read(Before(1).mem, 257) = 80 /\ Read(Before(1).mem, 258) = 1
    /\ After(1).PC = 336

\* C23: RST n pushes the address of the instruction that follows it (SP
\* decreases by 2, the high byte at SP+1 and the low byte at SP), sets PC to
\* 8n and changes nothing else; a RET executed next returns to the
\* instruction after the RST with SP as before it.
C23_RstPushesAndVectors ==
    \A n \in 1..Steps :
        LET op == OpcodeOf(n)
            s == Fetch(Before(n))
            following == Word(Before(n).PC + 1)
            sp == Word(s.SP + 65534)
            a == After(n)
        IN op \in RstOpcodes =>
              /\ a = [s EXCEPT !.PC = 8 * ((op - 199) \div 8), !.SP = sp,
                               !.mem = Write(Write(s.mem, sp, following % 256),
                                             Word(sp + 1), following \div 256)]
              /\ Read(a.mem, a.SP) = following % 256
              /\ Read(a.mem, Word(a.SP + 1)) = following \div 256
              /\ (n < Steps /\ OpcodeOf(n + 1) = 201) =>
                    /\ After(n + 1).PC = following
                    /\ After(n + 1).SP = Before(n).SP

\* RST 28h at 0x0100 has pushed 0x0101 and the RET at 0x0028 has returned
C23_Witness ==
    /\ Steps = 2
    /\ OpcodeOf(1) = 239 /\ OpcodeOf(2) = 201
    /\ Before(1).PC = 256 /\ Before(1).SP = 65534
    /\ Before(2).PC = 40 /\ Before(2).SP = 65532
    /\ Read(Before(2).mem, 65532) = 1 /\ Read(Before(2).mem, 65533) = 1
    /\ PC = 257 /\ SP = 65534

\* C28: IME is false at power-on; EI and RETI leave IME true, DI leaves it
\* false, each as soon as the instruction has executed; no other opcode
\* changes IME.
C28_ImeOnlyByEiDiReti ==
    /\ (~ready /\ Steps = 0) => IME = FALSE
    /\ \A n \in 1..Steps :
          LET op == OpcodeOf(n)
          IN After(n).IME = (CASE op \in {217, 251} -> TRUE
                               [] op = 243 -> FALSE
                               [] OTHER -> Before(n).IME)

\* EI from IME = false has set it and the DI after it has cleared it
C28_Witness ==
    /\ Steps = 2
    /\ OpcodeOf(1) = 251 /\ OpcodeOf(2) = 243
    /\ Before(1).IME = FALSE
    /\ Before(2).IME = TRUE
    /\ IME = FALSE

\* the second byte of the 0xCB instruction the n-th Step executed, and the
\* CPU past both bytes with nothing else changed
SecondByte(n) == Read(Before(n).mem, EntryPC(n))
PastBoth(n) == [Before(n) EXCEPT !.PC = Word(Before(n).PC + 2)]

\* the operands of the extended table in the order of its columns
Columns == <<"B", "C", "D", "E", "H", "L", "(HL)", "A">>

\* the byte in column k of the CPU record s, and s with the byte v there
ColumnByte(s, k) ==
    IF Columns[k + 1] = "(HL)" THEN Read(s.mem, (s.H * 256) + s.L) ELSE s[Columns[k + 1]]
WithColumn(s, k, v) ==
    IF Columns[k + 1] = "(HL)" THEN [s EXCEPT !.mem = Write(s.mem, (s.H * 256) + s.L, v)]
    ELSE [s EXCEPT ![Columns[k + 1]] = v]

\* C24: BIT n,x sets Zero iff bit n of x is 0, sets HalfCarry, clears
\* Subtract, leaves Carry and modifies neither the operand nor memory nor
\* any other register.
C24_BitTestsOnly ==
    \A n \in 1..Steps :
        LET b == SecondByte(n)
            x == ColumnByte(Before(n), b % 8)
            k == (b \div 8) % 8
        IN (OpcodeOf(n) = 203 /\ b \in 64..127) =>
              After(n) = [PastBoth(n) EXCEPT
                             !.F = FlagByte(Bit(x, k) = 0, FALSE, TRUE,
                                            CarryIn(Before(n).F) = 1)]

\* BIT 7,H on H = 0x80 with Carry set: Zero clear, HalfCarry set, Carry kept
C24_Witness ==
    /\ Steps >= 1
    /\ OpcodeOf(1) = 203 /\ SecondByte(1) = 124
    /\ Before(1).H = 128 /\ Before(1).F = 16
    /\ After(1).H = 128 /\ After(1).F = 48

\* C25: the byte 0x80 + 8n + r is RES n and 0xC0 + 8n + r is SET n on
\* operand r of B, C, D, E, H, L, (HL), A; RES clears and SET sets exactly
\* bit n of that operand, and F and everything else stay as they were.
C25_ResSetOneBit ==
    \A i \in 1..Steps :
        LET b == SecondByte(i)
            n == (b \div 8) % 8
            r == b % 8
            v == ColumnByte(Before(i), r)
            cleared == v - (Bit(v, n) * (2 ^ n))
        IN /\ (OpcodeOf(i) = 203 /\ b = 128 + (8 * n) + r) =>
                 After(i) = WithColumn(PastBoth(i), r, cleared)
           /\ (OpcodeOf(i) = 203 /\ b = 192 + (8 * n) + r) =>
                 After(i) = WithColumn(PastBoth(i), r, cleared + (2 ^ n))

\* RES 3,E on E = 0xFF left 0xF7 and F as it was
C25_Witness ==
    /\ Steps >= 1
    /\ OpcodeOf(1) = 203 /\ SecondByte(1) = 155
    /\ Before(1).E = 255 /\ Before(1).F = 176
    /\ After(1).E = 247 /\ After(1).F = 176

\* C26: a 0xCB operation on (HL) other than BIT leaves at the address HL the
\* byte, and in F the flags, that its register form leaves for the same
\* byte in B; no other byte of memory and no register changes.  BIT n,(HL)
\* leaves memory as it was.
C26_HLFormsWriteBack ==
    \A n \in 1..Steps :
        LET s == Before(n)
            b == SecondByte(n)
            hl == (s.H * 256) + s.L
            twin == Execute(Fetch([s EXCEPT !.B = Read(s.mem, hl),
                                            !.mem = Write(s.mem, EntryPC(n), b - 6)]),
                            203)
        IN (OpcodeOf(n) = 203 /\ b % 8 = 6) =>
              IF b \in 64..127
              THEN After(n) = [PastBoth(n) EXCEPT !.F = twin.F]
              ELSE After(n) = [PastBoth(n) EXCEPT !.F = twin.F,
                                                  !.mem = Write(s.mem, hl, twin.B)]

\* SLA (HL) on the byte 0x80 at 0x014D left 0x00 there, Zero and Carry
C26_Witness ==
    /\ Steps >= 1
    /\ OpcodeOf(1) = 203 /\ SecondByte(1) = 38
    /\ Before(1).H = 1 /\ Before(1).L = 77
    /\ Read(Before(1).mem, 333) = 128
    /\ Read(After(1).mem, 333) = 0
    /\ After(1).H = 1 /\ After(1).L = 77
    /\ After(1).F = 144

\* C27: CPL leaves A = the bitwise complement of A, sets HalfCarry and
\* Subtract and leaves Zero and Carry; SCF sets Carry and CCF inverts it,
\* both clear Subtract and HalfCarry and leave Zero; none of the three
\* changes anything else.
C27_CplScfCcf ==
    \A n \in 1..Steps :
        LET op == OpcodeOf(n)
            s == Fetch(Before(n))
            z == Bit(s.F, 7) = 1
            c == Bit(s.F, 4) = 1
        IN /\ op = 47 => After(n) = [s EXCEPT !.A = 255 - s.A,
                                              !.F = FlagByte(z, TRUE, TRUE, c)]
           /\ op = 55 => After(n) = [s EXCEPT !.F = FlagByte(z, FALSE, FALSE, TRUE)]
           /\ op = 63 => After(n) = [s EXCEPT !.F = FlagByte(z, FALSE, FALSE, ~c)]

\* CCF on F = 0xF0 left Zero alone, and CCF again set Carry back
C27_Witness ==
    /\ Steps = 2
    /\ OpcodeOf(1) = 63 /\ OpcodeOf(2) = 63
    /\ Before(1).F = 240
    /\ Before(2).F = 128
    /\ Before(2).A = Before(1).A
    /\ F = 144

\* C29: a newly created CPU has A=0x01, F=0xB0, B=0x00, C=0x13, D=0x00,
\* E=0xD8, H=0x01, L=0x4D, PC=0x0100, SP=0xFFFE and is not stopped, and its
\* first Step fetches its opcode from 0x0100: from the empty memory that is
\* a NOP, which leaves PC = 0x0101 and everything else as created.
C29_PowerOnSnapshot ==
    LET created(s) ==
            /\ s.A = 1 /\ s.F = 176 /\ s.B = 0 /\ s.C = 19 /\ s.D = 0 /\ s.E = 216
            /\ s.H = 1 /\ s.L = 77 /\ s.PC = 256 /\ s.SP = 65534
            /\ s.stopped = FALSE
    IN /\ (~ready /\ Steps = 0) => created(Cur)
       /\ (~ready /\ Steps >= 1) =>
             /\ created(Before(1))
             /\ OpcodeOf(1) = Read(Before(1).mem, 256)
             /\ After(1) = [Before(1) EXCEPT !.PC = 257]

\* the first Step of a new CPU has fetched from 0x0100
C29_Witness ==
    /\ ~ready
    /\ Steps = 1
    /\ Before(1).PC = 256 /\ Before(1).A = 1 /\ Before(1).F = 176
    /\ PC = 257

\* C30: every Execute call returns one result, the cycle cost of the
\* instruction it executed, and that count is positive.
C30_ExecuteReportsCycles ==
    \A n \in 1..Steps :
        LET results == ExecuteResults(Fetch(Before(n)), OpcodeOf(n))
        IN /\ Len(results) = 1
           /\ results[1] > 0

----------------------------------------------------------------------------
(* C31..C38 *)

\* the encoded length of the instruction with opcode op: 3 with a d16 or a16
\* operand, 2 with a d8, a8 or s8 operand, for STOP and after the 0xCB
\* prefix, else 1
InstrLength(op) ==
    IF op \in {1, 17, 33, 49, 8, 195, 194, 202, 210, 218, 205, 196, 204, 212, 220,
               234, 250}
    THEN 3
    ELSE IF op \in {6, 14, 22, 30, 38, 46, 54, 62, 198, 206, 214, 222, 230, 238, 246,
                    254, 24, 32, 40, 48, 56, 224, 240, 232, 248, 16, 203}
    THEN 2
    ELSE 1

\* the addresses the instruction at PC of the CPU record s reads: its own
\* bytes, and the data or stack bytes it addresses
ReadSet(s) ==
    LET op == Read(s.mem, s.PC)
        b1 == Read(s.mem, Word(s.PC + 1))
        b2 == Read(s.mem, Word(s.PC + 2))
        hl == (s.H * 256) + s.L
        own == {Word(s.PC + k) : k \in 0..(InstrLength(op) - 1)}
        data == CASE op \in {70, 78, 86, 94, 102, 110, 126, 52, 53, 42, 58} -> {hl}
                  [] op \in 128..191 /\ op % 8 = 6 -> {hl}
                  [] op = 203 /\ b1 % 8 = 6 -> {hl}
                  [] op = 10 -> {(s.B * 256) + s.C}
                  [] op = 26 -> {(s.D * 256) + s.E}
                  [] op = 240 -> {65280 + b1}
                  [] op = 242 -> {65280 + s.C}
                  [] op = 250 -> {b1 + (256 * b2)}
                  [] op \in PopOpcodes \cup CondRET \cup {201, 217} ->
                        {s.SP, Word(s.SP + 1)}
                  [] OTHER -> {}
    IN own \cup data

\* the addresses the instruction at PC of the CPU record s may write
TargetSet(s) ==
    LET op == Read(s.mem, s.PC)
        b1 == Read(s.mem, Word(s.PC + 1))
        b2 == Read(s.mem, Word(s.PC + 2))
        hl == (s.H * 256) + s.L
        a16 == b1 + (256 * b2)
    IN CASE op \in {34, 50, 52, 53, 54} \cup ((112..119) \ {118}) -> {hl}
         [] op = 203 /\ b1 % 8 = 6 /\ b1 \notin 64..127 -> {hl}
         [] op = 2 -> {(s.B * 256) + s.C}
         [] op = 18 -> {(s.D * 256) + s.E}
         [] op = 8 -> {a16, Word(a16 + 1)}
         [] op = 234 -> {a16}
         [] op = 224 -> {65280 + b1}
         [] op = 226 -> {65280 + s.C}
         [] op \in PushOpcodes \cup CondCALL \cup RstOpcodes \cup {205} ->
               {Word(s.SP + 65535), Word(s.SP + 65534)}
         [] OTHER -> {}

\* addresses next to the ones an instruction may use, and the ends of memory
Probes(s) ==
    {Word(s.PC + k) : k \in 1..3} \cup {Word(s.SP + k) : k \in {65533, 65534, 65535, 0, 1, 2}}
        \cup {Word((s.H * 256) + s.L + k) : k \in {65535, 0, 1}}
        \cup {(s.B * 256) + s.C, (s.D * 256) + s.E, 65280 + s.C, 0, 65535}
ProbeValues == {0, 201, 255}

\* C31: one instruction depends on nothing but the registers and the bytes
\* it reads: with any other byte of memory changed before it, it ends with
\* the same registers and the same memory but for that byte; and it
\* modifies no address outside the ones it targets.
C31_IndependentOfUnrelatedMemory ==
    \A n \in 1..Steps :
        LET s == Before(n)
            a == After(n)
        IN /\ \A x \in Probes(s) \ (ReadSet(s) \cup TargetSet(s)) :
                 \A v \in ProbeValues :
                    LET s2 == [s EXCEPT !.mem = Write(s.mem, x, v)]
                    IN Execute(Fetch(s2), Read(s2.mem, s2.PC))
                          = [a EXCEPT !.mem = Write(a.mem, x, v)]
           /\ \A x \in ((DOMAIN s.mem) \cup (DOMAIN a.mem)) \ TargetSet(s) :
                 Read(a.mem, x) = Read(s.mem, x)

\* C32: BC() = 256 * B + C, DE() = 256 * D + E, HL() = 256 * H + L; and when
\* WriteBC(v), WriteDE(v) or WriteHL(v) has returned, the accessor of that
\* pair returns v, its high register holds v / 256 and its low register
\* v mod 256, and every other field of the CPU is as before the call.
C32_PairAccessors ==
    /\ BC(Cur) = (256 * B) + C
    /\ DE(Cur) = (256 * D) + E
    /\ HL(Cur) = (256 * H) + L
    /\ (last.op = "WriteBC" /\ Steps = 0) =>
          /\ BC(Cur) = last.data
          /\ Cur = [last.prior EXCEPT !.B = last.data \div 256, !.C = last.data % 256]
    /\ (last.op = "WriteDE" /\ Steps = 0) =>
          /\ DE(Cur) = last.data
          /\ Cur = [last.prior EXCEPT !.D = last.data \div 256, !.E = last.data % 256]
    /\ (last.op = "WriteHL" /\ Steps = 0) =>
          /\ HL(Cur) = last.data
          /\ Cur = [last.prior EXCEPT !.H = last.data \div 256, !.L = last.data % 256]

\* WriteHL(0xF001) on a CPU with HL = 0x014D has returned
C32_Witness ==
    /\ last.op = "WriteHL" /\ Steps = 0
    /\ last.data = 61441
    /\ last.prior.H = 1 /\ last.prior.L = 77
    /\ H = 240 /\ L = 1

\* the value of the pair INC rr / DEC rr names (BC, DE, HL, SP by bits 4-5 of
\* the opcode), and the CPU record s with that pair set to v
WidePair(s, op) ==
    CASE (op \div 16) % 4 = 0 -> (256 * s.B) + s.C
      [] (op \div 16) % 4 = 1 -> (256 * s.D) + s.E
      [] (op \div 16) % 4 = 2 -> (256 * s.H) + s.L
      [] OTHER -> s.SP
WithWidePair(s, op, v) ==
    CASE (op \div 16) % 4 = 0 -> [s EXCEPT !.B = v \div 256, !.C = v % 256]
      [] (op \div 16) % 4 = 1 -> [s EXCEPT !.D = v \div 256, !.E = v % 256]
      [] (op \div 16) % 4 = 2 -> [s EXCEPT !.H = v \div 256, !.L = v % 256]
      [] OTHER -> [s EXCEPT !.SP = v]

\* C35: INC rr and DEC rr (0x03/0x0B, 0x13/0x1B, 0x23/0x2B, 0x33/0x3B) leave
\* the named pair at rr + 1 resp. rr - 1 modulo 65536 and change nothing
\* else: not F, not another pair, not memory.
C35_IncDecPair ==
    \A n \in 1..Steps :
        LET op == OpcodeOf(n)
            s == Fetch(Before(n))
            delta == IF op % 16 = 3 THEN 1 ELSE 65535
        IN op \in WideOpcodes =>
              After(n) = WithWidePair(s, op, (WidePair(s, op) + delta) % 65536)

\* C37: ADD SP,s8 leaves SP = (SP + s) mod 65536 and LD HL,SP+s8 leaves HL =
\* (SP + s) mod 65536 with SP as it was, s being the operand byte d as a
\* signed value; both leave PC past the operand and F = HalfCarry iff
\* (SP mod 16) + (d mod 16) > 15, Carry iff (SP mod 256) + d > 255, Zero and
\* Subtract clear; nothing else changes.
C37_SpPlusSigned ==
    \A n \in 1..Steps :
        LET op == OpcodeOf(n)
            s == Fetch(Before(n))
            d == Read(s.mem, s.PC)
            sum == (s.SP + d + (IF d >= 128 THEN 65536 - 256 ELSE 0)) % 65536
            flags == FlagByte(FALSE, FALSE, (s.SP % 16) + (d % 16) > 15,
                              (s.SP % 256) + d > 255)
        IN /\ op = 232 =>
                 After(n) = [s EXCEPT !.PC = Word(s.PC + 1), !.SP = sum, !.F = flags]
           /\ op = 248 =>
                 After(n) = [s EXCEPT !.PC = Word(s.PC + 1), !.H = sum \div 256,
                                      !.L = sum % 256, !.F = flags]

\* ADD SP,-1 on SP = 0x0001 with Zero set left SP = 0x0000, HalfCarry and
\* Carry set and Zero clear
C37_Witness ==
    /\ Steps >= 1
    /\ OpcodeOf(1) = 232
    /\ Read(Before(1).mem, EntryPC(1)) = 255
    /\ Before(1).SP = 1 /\ Before(1).F = 176
    /\ After(1).SP = 0 /\ After(1).F = 48

\* the opcodes that set PC otherwise than by their length: jumps, calls,
\* returns and RST; those that end in a fault are IllegalOpcodes
TransferOpcodes ==
    {24, 195, 233, 205, 201, 217} \cup CondJR \cup CondJP \cup CondCALL \cup CondRET
        \cup RstOpcodes

\* C36: a Step on an opcode that is not a jump, call, return, RST or fault
\* advances PC by the encoded length of the instruction modulo 65536: 3
\* with a d16 or a16 operand, 2 with a d8, a8 or s8 operand, for STOP and
\* for every 0xCB instruction, else 1.
C36_PcAdvancesByLength ==
    \A n \in 1..Steps :
        LET op == OpcodeOf(n)
        IN op \notin TransferOpcodes \cup IllegalOpcodes =>
              After(n).PC = Word(Before(n).PC + InstrLength(op))

\* LD BC,d16 at 0xFFFF left PC = 0x0002, and the one-byte opcode there
\* PC = 0x0003
C36_Witness ==
    /\ Steps = 2
    /\ OpcodeOf(1) = 1 /\ Before(1).PC = 65535
    /\ Before(2).PC = 2
    /\ InstrLength(OpcodeOf(2)) = 1
    /\ PC = 3

\* C33: when WriteBytes(a, bs) with a + len(bs) <= 0x10000 has been called
\* (LoadROM is the call with a = 0), the call has not failed, Read(a + i) =
\* bs[i] for every i < len(bs), and every other address holds what it held.
C33_WriteBytesLoadsBlock ==
    (last.op \in {"WriteBytes", "LoadROM"} /\ run.at = "idle") =>
        LET a == last.address
            bs == Payload(last.payload)
        IN a + Len(bs) <= 65536 =>
              /\ fatal = ""
              /\ \A k \in 1..Len(bs) : Read(mem, a + k - 1) = bs[k]
              /\ \A x \in ((DOMAIN mem) \cup (DOMAIN last.prior)) \ (a..(a + Len(bs) - 1)) :
                    Read(mem, x) = Read(last.prior, x)

\* Run has been called on a GameBoy whose ROM is at most 256 bytes long
ShortRomRun == run.at # "idle" /\ Len(Payload(last.payload)) <= 256

ModeCycles(mode) ==
    CASE mode = MODE_OAM -> 80
      [] mode = MODE_VRAM -> 172
      [] mode = MODE_HBLANK -> 204
      [] mode = MODE_VBLANK -> 456

\* C38: with the LCD-enable bit of lcdControl clear a Step changes nothing.
\* Otherwise a Step adds its cycles to the clock and, when the clock has
\* reached the cycles of the mode, takes them off once and makes one
\* transition: OAM to VRAM, VRAM to HBLANK, HBLANK to OAM with lyCounter
\* one more, or to VBLANK when that makes it 144, and in VBLANK lyCounter
\* one more, or 0 and OAM after 153.  No other transition occurs, and below
\* the cycles of the mode neither the mode nor lyCounter changes.
C38_PpuModeOrder ==
    last.op = "ppu.Step" =>
        LET p == last.prior
            clock == p.clock + last.cycles
            due == clock >= ModeCycles(p.mode)
        IN IF p.lcdControl < 128 THEN ppu = p
           ELSE /\ ppu.lcdControl = p.lcdControl
                /\ ppu.clock = (IF due THEN clock - ModeCycles(p.mode) ELSE clock)
                /\ ~due => (ppu.mode = p.mode /\ ppu.lyCounter = p.lyCounter)
                /\ (due /\ p.mode = MODE_OAM) =>
                      (ppu.mode = MODE_VRAM /\ ppu.lyCounter = p.lyCounter)
                /\ (due /\ p.mode = MODE_VRAM) =>
                      (ppu.mode = MODE_HBLANK /\ ppu.lyCounter = p.lyCounter)
                /\ (due /\ p.mode = MODE_HBLANK) =>
                      /\ ppu.lyCounter = p.lyCounter + 1
                      /\ ppu.mode = (IF ppu.lyCounter = 144 THEN MODE_VBLANK ELSE MODE_OAM)
                /\ (due /\ p.mode = MODE_VBLANK) =>
                      IF p.lyCounter >= 153
                      THEN ppu.lyCounter = 0 /\ ppu.mode = MODE_OAM
                      ELSE ppu.lyCounter = p.lyCounter + 1 /\ ppu.mode = MODE_VBLANK

\* the Step that ends the frame: from VBLANK on line 153 to OAM on line 0,
\* all 144 lines having been drawn
C38_Witness ==
    /\ last.op = "ppu.Step"
    /\ last.prior.mode = MODE_VBLANK /\ last.prior.lyCounter = 153
    /\ ppu.mode = MODE_OAM /\ ppu.lyCounter = 0
    /\ ppu.drawn = 143

====
